---- MODULE Spec2Model ----
(***************************************************************************)
(* Werewolf auto-referee: the game-state reducer (useGameLogic), the turn  *)
(* orchestrator (useGameOrchestrator) and its tempo controller.            *)
(*                                                                         *)
(* Encoding notes.                                                         *)
(*  - `null` / `undefined` ids are the value Null (0); every real or       *)
(*    unknown seat id used as an input is a positive number.               *)
(*  - A log message is a record [tag, day, id, n, deaths]; the Chinese     *)
(*    wording and the player names inside messages are not modelled, the   *)
(*    numbers and cause lists they carry are.  Replay-event ids and        *)
(*    timestamps (Date.now()) are not modelled.                            *)
(*  - hunterPending = null is the record NoPending.                        *)
(***************************************************************************)
EXTENDS Integers, Sequences, FiniteSets, TLC

Null == 0

\* ------------------------------------------------------------------ bounds
\* The longest game log the model follows within one game: an action that
\* would append past it is not taken.
MaxLog == 6
\* The highest day counter at which a resolution step is still taken.
MaxDay == 1
\* The number of loop iterations of runFullCycle (and the manual sequence
\* before it) in which a custom handler still returns decisions of its own;
\* afterwards it only fails.
MaxCustomCycles == 1

\* --------------------------------------------------------- program constants
ROLE_POOL ==
  << "Werewolf", "Werewolf", "Werewolf", "Villager", "Villager",
     "Villager", "Seer", "Witch", "Hunter", "Villager" >>

ROLE_PRESET ==
  << "Werewolf", "Werewolf", "Werewolf", "Seer", "Witch",
     "Hunter", "Villager", "Villager", "Villager", "Villager" >>

Phases ==
  { "RoleAssignment", "Night", "WerewolfAction", "SeerAction", "WitchAction",
    "Day", "Discussion", "Voting", "PostVoteDiscussion", "HunterAction",
    "GameOver" }

NoPending == [playerId |-> Null, context |-> "none", nextPhase |-> "none"]

\* ------------------------------------------------------------- log entries
NoMsg == [tag |-> "", day |-> 0, id |-> Null, n |-> 0, deaths |-> << >>]
NoReplay ==
  [phase |-> "", category |-> "none", day |-> 0, actorId |-> Null,
   content |-> NoMsg]

Msg(tag, day, id, n, deaths) ==
  [tag |-> tag, day |-> day, id |-> id, n |-> n, deaths |-> deaths]

Replay(phase, category, day, actorId, content) ==
  [phase |-> phase, category |-> category, day |-> day, actorId |-> actorId,
   content |-> content]

Entry(message, replay, highlight) ==
  [message |-> message, replay |-> replay, highlight |-> highlight]

\* applyLogEntries, mutated: only the last entry of a batch is kept, and it
\* replaces the newest line of each list.
applyLogEntriesOverwriting(logs, entries) ==
  IF entries = << >> THEN logs
  ELSE LET e == entries[Len(entries)]
           put(list, line) ==
             IF line.tag = "" THEN list
             ELSE IF list = << >> THEN << line >>
             ELSE [list EXCEPT ![Len(list)] = line]
       IN [gameLog |-> put(logs.gameLog, e.message),
           replay |-> logs.replay,
           highlights |-> put(logs.highlights, e.highlight)]

RECURSIVE applyLogEntries(_, _)
applyLogEntries(logs, entries) ==
  IF entries = << >> THEN logs
  ELSE LET e == Head(entries)
           next ==
             [gameLog |-> IF e.message # NoMsg
                            THEN Append(logs.gameLog, e.message)
                            ELSE logs.gameLog,
              replay |-> IF e.replay # NoReplay
                           THEN Append(logs.replay, e.replay)
                           ELSE logs.replay,
              highlights |-> IF e.highlight # NoMsg
                               THEN Append(logs.highlights, e.highlight)
                               ELSE logs.highlights]
       IN applyLogEntries(next, Tail(entries))

LogsOf(s) ==
  [gameLog |-> s.gameLog, replay |-> s.replay, highlights |-> s.highlights]

applyLogEntry(logs, entry) == applyLogEntries(logs, << entry >>)

\* --------------------------------------------------------------- helpers
\* `const x = v` followed by body(x): v is evaluated once, where it stands.
With(v, body(_)) == CHOOSE r \in {body(x) : x \in {v}} : TRUE

\* Array.prototype.find by predicate: the index of the first match, 0 if none.
FindIdx(seq, P(_)) ==
  IF \E i \in 1..Len(seq) : P(seq[i])
    THEN CHOOSE i \in 1..Len(seq) :
           P(seq[i]) /\ \A j \in 1..(i - 1) : ~P(seq[j])
    ELSE 0

FindById(players, id) == FindIdx(players, LAMBDA p : p.id = id)

Count(seq, P(_)) == Cardinality({i \in 1..Len(seq) : P(seq[i])})

\* Fisher-Yates: for i = length-1 down to 1 (0-based) swap arr[i] and arr[j],
\* j = floor(Math.random() * (i + 1)); rnd[i] is that j.
RECURSIVE shuffleFrom(_, _, _)
shuffleFrom(arr, i, rnd) ==
  IF i <= 0 THEN arr
  ELSE LET j == rnd[i]
           swapped == [arr EXCEPT ![i + 1] = arr[j + 1], ![j + 1] = arr[i + 1]]
       IN shuffleFrom(swapped, i - 1, rnd)

\* shuffle, mutated: each seat draws from the source instead of swapping.
shuffleDrawing(source, rnd) ==
  [i \in 1..Len(source) |->
     IF i = 1 THEN source[1] ELSE source[rnd[i - 1] + 1]]

shuffle(source, rnd) == shuffleFrom(source, Len(source) - 1, rnd)

\* checkWinCondition, mutated: werewolves need a strict majority.
checkWinConditionStrict(players) ==
  LET aliveN == Count(players, LAMBDA p : p.isAlive)
      werewolfCount ==
        Count(players, LAMBDA p : p.isAlive /\ p.role = "Werewolf")
      goodGuyCount == aliveN - werewolfCount
  IN IF werewolfCount = 0 THEN "Villagers"
     ELSE IF werewolfCount > 0 /\ werewolfCount > goodGuyCount
            THEN "Werewolves"
            ELSE "none"

checkWinCondition(players) ==
  LET alive == SelectSeq(players, LAMBDA p : p.isAlive)
      werewolfCount == Len(SelectSeq(alive, LAMBDA p : p.role = "Werewolf"))
      goodGuyCount == Len(alive) - werewolfCount
  IN IF werewolfCount = 0 THEN "Villagers"
     ELSE IF werewolfCount > 0 /\ werewolfCount >= goodGuyCount
            THEN "Werewolves"
            ELSE "none"

\* ------------------------------------------------------------ player names
\* A name is [given |-> the trimmed characters, seat |-> 0], or, when the
\* supplied name is missing or blank, the default `Player N`:
\* [given |-> << >>, seat |-> N].
RECURSIVE trimLeft(_)
trimLeft(chars) ==
  IF chars # << >> /\ Head(chars) = " " THEN trimLeft(Tail(chars)) ELSE chars

RECURSIVE trimRight(_)
trimRight(chars) ==
  IF chars # << >> /\ chars[Len(chars)] = " "
    THEN trimRight(SubSeq(chars, 1, Len(chars) - 1))
    ELSE chars

trim(chars) == trimRight(trimLeft(chars))

playerName(names, index) ==
  LET given == IF index <= Len(names) THEN trim(names[index]) ELSE << >>
  IN IF given # << >> THEN [given |-> given, seat |-> 0]
     ELSE [given |-> << >>, seat |-> index]

\* createInitialPlayers: the preset order, untrimmed names, `Player N` only
\* for a missing (undefined) name.
createInitialPlayers(names) ==
  [index \in 1..Len(ROLE_PRESET) |->
     [id |-> index,
      name |-> IF index <= Len(names)
                 THEN [given |-> names[index], seat |-> 0]
                 ELSE [given |-> << >>, seat |-> index],
      role |-> ROLE_PRESET[index],
      isAlive |-> TRUE,
      isSheriff |-> FALSE,
      lastNightRoleResult |-> ""]]

NewWitchState ==
  [saveUsed |-> FALSE, poisonUsed |-> FALSE, poisonChoice |-> Null,
   savedTargetId |-> Null]

createInitialGameState ==
  [players |-> createInitialPlayers(<< >>),
   day |-> 0,
   phase |-> "RoleAssignment",
   winner |-> "none",
   werewolfChoice |-> Null,
   seerChoice |-> Null,
   witchState |-> NewWitchState,
   votes |-> << >>,
   hunterPending |-> NoPending,
   gameLog |-> << Msg("initial", 0, Null, 0, << >>) >>,
   replay |-> << >>,
   highlights |-> << >>]

\* ------------------------------------------------------------ the reducer
\* START_GAME, mutated: the votes and the pending shot of the game before are
\* kept.
START_GAME_KeepsVotes(s, names, rnd) ==
  LET shuffledRoles == shuffle(ROLE_POOL, rnd)
      startLog == Msg("start", 0, Null, 0, << >>)
  IN [s EXCEPT !.players =
                 [index \in 1..Len(shuffledRoles) |->
                    [id |-> index,
                     name |-> playerName(names, index),
                     role |-> shuffledRoles[index],
                     isAlive |-> TRUE,
                     isSheriff |-> FALSE,
                     lastNightRoleResult |-> ""]],
               !.day = 0,
               !.phase = "RoleAssignment",
               !.gameLog = << startLog >>,
               !.winner = "none",
               !.werewolfChoice = Null,
               !.seerChoice = Null,
               !.witchState = NewWitchState,
               !.replay = << Replay("RoleAssignment", "system", 0, Null, startLog) >>,
               !.highlights = << >>]

START_GAME(s, names, rnd) ==
  LET shuffledRoles == shuffle(ROLE_POOL, rnd)
      players ==
        [index \in 1..Len(shuffledRoles) |->
           [id |-> index,
            name |-> playerName(names, index),
            role |-> shuffledRoles[index],
            isAlive |-> TRUE,
            isSheriff |-> FALSE,
            lastNightRoleResult |-> ""]]
      startLog == Msg("start", 0, Null, 0, << >>)
      startEvent == Replay("RoleAssignment", "system", 0, Null, startLog)
  IN [s EXCEPT !.players = players,
               !.day = 0,
               !.phase = "RoleAssignment",
               !.gameLog = << startLog >>,
               !.winner = "none",
               !.werewolfChoice = Null,
               !.seerChoice = Null,
               !.witchState = NewWitchState,
               !.votes = << >>,
               !.hunterPending = NoPending,
               !.replay = << startEvent >>,
               !.highlights = << >>]

\* payload = [phase, log, replay, highlight]; an absent log / highlight is
\* NoMsg, an absent replay is NoReplay.
SET_PHASE(s, payload) ==
  LET applied ==
        IF payload.log # NoMsg \/ payload.replay # NoReplay
             \/ payload.highlight # NoMsg
          THEN applyLogEntry(LogsOf(s),
                 Entry(payload.log, payload.replay, payload.highlight))
          ELSE LogsOf(s)
  IN [s EXCEPT !.phase = payload.phase,
               !.gameLog = applied.gameLog,
               !.replay = applied.replay,
               !.highlights = applied.highlights]

WEREWOLF_ACTION(s, targetId) == [s EXCEPT !.werewolfChoice = targetId]

SEER_ACTION(s, targetId) == [s EXCEPT !.seerChoice = targetId]

\* WITCH_ACTION, mutated: the use-once checks are dropped.
WITCH_ACTION_NoUseOnce(s, payload) ==
  IF payload.action = "save"
    THEN [s EXCEPT !.witchState.saveUsed = TRUE,
                   !.witchState.savedTargetId = s.werewolfChoice]
    ELSE [s EXCEPT !.witchState.poisonUsed = TRUE,
                   !.witchState.poisonChoice = payload.targetId]

\* payload = [action |-> "save" | "poison", targetId]
WITCH_ACTION(s, payload) ==
  IF payload.action = "save"
    THEN IF s.witchState.saveUsed THEN s
         ELSE [s EXCEPT !.witchState.saveUsed = TRUE,
                        !.witchState.savedTargetId = s.werewolfChoice]
    ELSE IF s.witchState.poisonUsed THEN s
         ELSE [s EXCEPT !.witchState.poisonUsed = TRUE,
                        !.witchState.poisonChoice = payload.targetId]

\* PLAYER_VOTE, mutated: the vote is appended without removing the voter's
\* earlier vote.
PLAYER_VOTE_NoFilter(s, voterId, targetId) ==
  [s EXCEPT !.votes =
     Append(s.votes, [voterId |-> voterId, targetId |-> targetId])]

PLAYER_VOTE(s, voterId, targetId) ==
  LET votes == SelectSeq(s.votes, LAMBDA vote : vote.voterId # voterId)
  IN [s EXCEPT !.votes =
        Append(votes, [voterId |-> voterId, targetId |-> targetId])]

\* registerDeath, mutated: a victim keeps the first cause only.
registerDeathFirstCause(deaths, id, cause) ==
  IF \E k \in 1..Len(deaths) : deaths[k].id = id THEN deaths
  ELSE Append(deaths, [id |-> id, causes |-> << cause >>])

\* registerDeath on the insertion-ordered deathCauses map (deathIds holds the
\* same keys): a sequence of [id, causes].
registerDeath(deaths, id, cause) ==
  LET at == FindIdx(deaths, LAMBDA d : d.id = id)
  IN IF at = 0 THEN Append(deaths, [id |-> id, causes |-> << cause >>])
     ELSE [deaths EXCEPT ![at].causes = Append(@, cause)]

removeDeath(deaths, id) == SelectSeq(deaths, LAMBDA d : d.id # id)

DeathIds(deaths) == {deaths[i].id : i \in 1..Len(deaths)}

\* werewolfDeaths, mutated: the witch's save does not cancel the kill.
werewolfDeathsNoSave(s) ==
  LET wt == FindById(s.players, s.werewolfChoice)
  IN IF wt # 0 /\ s.players[wt].isAlive
       THEN registerDeath(<< >>, s.players[wt].id, "werewolf")
       ELSE << >>

\* The werewolf kill and the witch's save (steps 1 and 2 of the night).
werewolfDeaths(s) ==
  LET wt == FindById(s.players, s.werewolfChoice)
      registered ==
        IF wt # 0 /\ s.players[wt].isAlive
          THEN registerDeath(<< >>, s.players[wt].id, "werewolf")
          ELSE << >>
  IN IF s.witchState.savedTargetId # Null /\ wt # 0
          /\ s.players[wt].id = s.witchState.savedTargetId
       THEN removeDeath(registered, s.players[wt].id)
       ELSE registered

\* The pending deaths of the night: werewolf kill, save, then poison.
nightDeaths(s) ==
  With(werewolfDeaths(s), LAMBDA afterWolf :
    With(IF s.witchState.poisonChoice # Null
           THEN FindById(s.players, s.witchState.poisonChoice) ELSE 0,
         LAMBDA pt :
           IF pt # 0 /\ s.players[pt].isAlive
             THEN registerDeath(afterWolf, s.players[pt].id, "poison")
             ELSE afterWolf))

\* applyDeaths, mutated: the alive flags are rebuilt from the night's victims.
applyDeathsRebuilt(players, ids) ==
  [i \in 1..Len(players) |->
     [players[i] EXCEPT !.isAlive = players[i].id \notin ids]]

\* deathIds.forEach: every pending victim that is alive dies.
applyDeaths(players, ids) ==
  [i \in 1..Len(players) |->
     IF players[i].id \in ids /\ players[i].isAlive
       THEN [players[i] EXCEPT !.isAlive = FALSE]
       ELSE players[i]]

\* The Hunter among the players that applyDeaths kills, 0 if none.
dyingHunter(players, ids) ==
  FindIdx(players,
          LAMBDA p : p.id \in ids /\ p.isAlive /\ p.role = "Hunter")

gameOverEntry(winner, day) ==
  LET message == Msg("gameover", 0, Null,
                     IF winner = "Werewolves" THEN 1 ELSE 0, << >>)
  IN Entry(message, Replay("GameOver", "summary", day, Null, message), message)

\* The reducer's result with the entries appended to its three logs.
withLogs(s, entries) ==
  With(applyLogEntries(LogsOf(s), entries), LAMBDA applied :
    [s EXCEPT !.gameLog = applied.gameLog,
              !.replay = applied.replay,
              !.highlights = applied.highlights])

phaseEntry(tag, tagDay, phase, category, day) ==
  LET m == Msg(tag, tagDay, Null, 0, << >>)
  IN Entry(m, Replay(phase, category, day, Null, m), NoMsg)

\* The index of the player the seer inspects, 0 if none.
seerTarget(s) ==
  IF s.seerChoice # Null THEN FindById(s.players, s.seerChoice) ELSE 0

seerEntries(s, st) ==
  IF st = 0 THEN << >>
  ELSE LET seerIdx == FindIdx(s.players, LAMBDA p : p.role = "Seer")
           seerMessage ==
             Msg("seer", 0, s.players[st].id,
                 IF s.players[st].role = "Werewolf" THEN 1 ELSE 0, << >>)
       IN << Entry(seerMessage,
                   Replay("SeerAction", "decision", s.day + 1,
                          IF seerIdx = 0 THEN Null ELSE s.players[seerIdx].id,
                          seerMessage),
                   NoMsg) >>

\* The seer's verdict written over the role of the inspected player.
inspectedPlayersOverRole(s, st) ==
  IF st = 0 THEN s.players
  ELSE [s.players EXCEPT ![st].role =
          IF s.players[st].role = "Werewolf" THEN "wolf" ELSE "good"]

inspectedPlayers(s, st) ==
  IF st = 0 THEN s.players
  ELSE [s.players EXCEPT ![st].lastNightRoleResult =
          IF s.players[st].role = "Werewolf" THEN "wolf" ELSE "good"]

nightSummary(nightIndex, deaths) ==
  LET m == IF Len(deaths) > 0
             THEN Msg("nightDeaths", nightIndex, Null, Len(deaths), deaths)
             ELSE Msg("peaceful", nightIndex, Null, 0, << >>)
  IN Entry(m, Replay("Night", "action", nightIndex, Null, m),
           IF Len(deaths) > 0 THEN m ELSE NoMsg)

\* nightHunterPending, mutated: the shot of a hunter who died at night is
\* followed by the next night.
nightHunterPendingToNight(s, players, ids) ==
  With(dyingHunter(players, ids), LAMBDA hunterIdx :
    IF hunterIdx # 0
      THEN [playerId |-> players[hunterIdx].id, context |-> "night",
            nextPhase |-> "Night"]
      ELSE s.hunterPending)

nightHunterPending(s, players, ids) ==
  With(dyingHunter(players, ids), LAMBDA hunterIdx :
    IF hunterIdx # 0
      THEN [playerId |-> players[hunterIdx].id, context |-> "night",
            nextPhase |-> "Day"]
      ELSE s.hunterPending)

\* The three ways RESOLVE_NIGHT ends: a winner, a dying hunter, the day.
nightOutcome(base, winner, hunterPending, entries, nightIndex) ==
  IF winner # "none"
    THEN [withLogs(base, Append(entries, gameOverEntry(winner, nightIndex)))
            EXCEPT !.phase = "GameOver",
                   !.winner = winner,
                   !.hunterPending = NoPending]
  ELSE IF hunterPending # NoPending
    THEN [withLogs(base,
            Append(entries,
              phaseEntry("hunterDown", 0, "HunterAction", "system", nightIndex)))
            EXCEPT !.phase = "HunterAction",
                   !.hunterPending = hunterPending]
  ELSE [withLogs(base,
          Append(entries, phaseEntry("dawn", nightIndex, "Day", "phase", nightIndex)))
          EXCEPT !.phase = "Day",
                 !.hunterPending = NoPending]

\* nextWitchState, mutated: the night's choices are kept.
nextWitchStateKept(witchState) == witchState

\* nextWitchState, mutated: the night hands the potions back to the witch.
nextWitchStateRearmed(witchState) ==
  [witchState EXCEPT !.poisonChoice = Null, !.savedTargetId = Null,
                     !.saveUsed = FALSE, !.poisonUsed = FALSE]

\* The witch state after the night: the use-once flags stay, the choices go.
nextWitchState(witchState) ==
  [witchState EXCEPT !.poisonChoice = Null, !.savedTargetId = Null]

\* The night cancels a registered werewolf kill because of the witch's save.
savedKill(s) ==
  LET wt == FindById(s.players, s.werewolfChoice)
  IN /\ wt # 0
     /\ s.players[wt].isAlive
     /\ s.witchState.savedTargetId # Null
     /\ s.players[wt].id = s.witchState.savedTargetId

\* The night registers a death by the witch's poison.
poisonDeath(s) ==
  /\ s.witchState.poisonChoice # Null
  /\ LET pt == FindById(s.players, s.witchState.poisonChoice)
     IN pt # 0 /\ s.players[pt].isAlive

RESOLVE_NIGHT(s) ==
  With(nightDeaths(s), LAMBDA deaths :
    With(inspectedPlayers(s, seerTarget(s)), LAMBDA inspected :
      With(applyDeaths(inspected, DeathIds(deaths)), LAMBDA players :
        With(checkWinCondition(players), LAMBDA winner :
          nightOutcome([s EXCEPT !.players = players,
                                 !.werewolfChoice = Null,
                                 !.seerChoice = Null,
                                 !.witchState = nextWitchState(s.witchState)],
                       winner,
                       nightHunterPending(s, inspected, DeathIds(deaths)),
                       seerEntries(s, seerTarget(s))
                         \o << nightSummary(s.day + 1, deaths) >>,
                       s.day + 1)))))

\* The tally as Object.entries(tally).sort((a, b) => b[1] - a[1]) lists it:
\* integer keys ascending, then a stable sort by descending count.
tallyCount(votes, target) ==
  Count(votes, LAMBDA vote : vote.targetId = target)

RECURSIVE sortedTally(_, _)
sortedTally(votes, targets) ==
  IF targets = {} THEN << >>
  ELSE With(CHOOSE a \in targets :
              \A b \in targets :
                \/ tallyCount(votes, a) > tallyCount(votes, b)
                \/ tallyCount(votes, a) = tallyCount(votes, b) /\ a <= b,
            LAMBDA first :
              << [targetId |-> first, count |-> tallyCount(votes, first)] >>
                \o sortedTally(votes, targets \ {first}))

voteTally(votes) ==
  sortedTally(votes,
    {votes[i].targetId : i \in 1..Len(votes)} \ {Null})

\* eliminatedOf, mutated: a tie at the top eliminates the first of the tied.
eliminatedOfNoTie(votes) ==
  With(voteTally(votes), LAMBDA sorted :
    IF Len(sorted) > 0
      THEN [id |-> sorted[1].targetId, votes |-> sorted[1].count]
      ELSE [id |-> Null, votes |-> 0])

\* eliminatedOf, mutated: the target with the fewest votes is taken.
eliminatedOfLeast(votes) ==
  With(voteTally(votes), LAMBDA sorted :
    IF Len(sorted) > 0
         /\ ~(Len(sorted) > 1 /\ sorted[2].count = sorted[1].count)
      THEN [id |-> sorted[Len(sorted)].targetId,
            votes |-> sorted[Len(sorted)].count]
      ELSE [id |-> Null, votes |-> 0])

\* [id, votes] of the player to eliminate; id = Null on a tie or an empty tally.
eliminatedOf(votes) ==
  With(voteTally(votes), LAMBDA sorted :
    IF Len(sorted) > 0
         /\ ~(Len(sorted) > 1 /\ sorted[2].count = sorted[1].count)
      THEN [id |-> sorted[1].targetId, votes |-> sorted[1].count]
      ELSE [id |-> Null, votes |-> 0])

voteEntries(s) ==
  IF Len(s.votes) > 0
    THEN LET m == Msg("votes", 0, Null, Len(s.votes), << >>)
         IN << Entry(m, Replay("Voting", "decision", s.day, Null, m), NoMsg) >>
    ELSE << >>

\* The index of the alive player the vote eliminates, 0 if none.
eliminatedPlayer(s, eliminated) ==
  IF eliminated.id # Null
    THEN FindIdx(s.players, LAMBDA p : p.id = eliminated.id /\ p.isAlive)
    ELSE 0

resultEntries(s, eliminated, ep) ==
  IF eliminated.id # Null
    THEN IF ep # 0
           THEN LET m == Msg("eliminated", 0, s.players[ep].id,
                             eliminated.votes, << >>)
                IN << Entry(m, Replay("Voting", "action", s.day,
                                      s.players[ep].id, m), m) >>
           ELSE << >>
    ELSE << phaseEntry("tie", 0, "Voting", "system", s.day) >>

\* votingHunterPending, mutated: the exiled hunter is recorded as a night death.
votingHunterPendingAsNight(s, ep) ==
  IF ep # 0 /\ s.players[ep].role = "Hunter"
    THEN [playerId |-> s.players[ep].id, context |-> "night",
          nextPhase |-> "Day"]
    ELSE s.hunterPending

votingHunterPending(s, ep) ==
  IF ep # 0 /\ s.players[ep].role = "Hunter"
    THEN [playerId |-> s.players[ep].id, context |-> "day",
          nextPhase |-> "Night"]
    ELSE s.hunterPending

\* votingOutcome, mutated: the exiled hunter's shot is asked for before the
\* winner is looked at.
votingOutcomeHunterFirst(s, base, winner, hunterPending, entries) ==
  IF hunterPending # NoPending
    THEN [withLogs(base, entries)
            EXCEPT !.phase = "HunterAction",
                   !.day = s.day + 1,
                   !.hunterPending = hunterPending]
  ELSE IF winner # "none"
    THEN [withLogs(base, entries)
            EXCEPT !.phase = "GameOver",
                   !.winner = winner,
                   !.hunterPending = NoPending]
  ELSE [withLogs(base, entries)
          EXCEPT !.phase = "Night",
                 !.day = s.day + 1,
                 !.hunterPending = NoPending]

\* votingOutcome, mutated: the day counter moves only when the night begins.
votingOutcomeHunterSameDay(s, base, winner, hunterPending, entries) ==
  IF winner # "none"
    THEN [withLogs(base, entries)
            EXCEPT !.phase = "GameOver",
                   !.winner = winner,
                   !.hunterPending = NoPending]
  ELSE IF hunterPending # NoPending
    THEN [withLogs(base, entries)
            EXCEPT !.phase = "HunterAction",
                   !.hunterPending = hunterPending]
  ELSE [withLogs(base, entries)
          EXCEPT !.phase = "Night",
                 !.day = s.day + 1,
                 !.hunterPending = NoPending]

\* The three ways RESOLVE_VOTING ends: a winner, an exiled hunter, the night.
votingOutcome(s, base, winner, hunterPending, entries) ==
  IF winner # "none"
    THEN [withLogs(base, Append(entries, gameOverEntry(winner, s.day)))
            EXCEPT !.phase = "GameOver",
                   !.winner = winner,
                   !.hunterPending = NoPending]
  ELSE IF hunterPending # NoPending
    THEN [withLogs(base,
            Append(entries,
              phaseEntry("hunterExiled", 0, "HunterAction", "system", s.day)))
            EXCEPT !.phase = "HunterAction",
                   !.day = s.day + 1,
                   !.hunterPending = hunterPending]
  ELSE [withLogs(base,
          Append(entries,
            phaseEntry("nightBegins", s.day + 1, "Night", "phase", s.day + 1)))
          EXCEPT !.phase = "Night",
                 !.day = s.day + 1,
                 !.hunterPending = NoPending]

RESOLVE_VOTING(s) ==
  With(eliminatedOf(s.votes), LAMBDA eliminated :
    With(eliminatedPlayer(s, eliminated), LAMBDA ep :
      With(IF ep # 0 THEN [s.players EXCEPT ![ep].isAlive = FALSE]
           ELSE s.players,
           LAMBDA players :
             With(checkWinCondition(players), LAMBDA winner :
               votingOutcome(s,
                             [s EXCEPT !.players = players, !.votes = << >>],
                             winner,
                             votingHunterPending(s, ep),
                             voteEntries(s)
                               \o resultEntries(s, eliminated, ep))))))

\* The index of the alive player the hunter shoots, 0 if none.
hunterTarget(s, targetId) ==
  IF targetId # Null
    THEN FindIdx(s.players, LAMBDA p : p.id = targetId /\ p.isAlive)
    ELSE 0

\* The line about the shot: a hit, an invalid target, or no shot.
shotEntry(s, targetId, tp) ==
  IF targetId # Null
    THEN IF tp # 0
           THEN LET m == Msg("hunterShot", 0, s.players[tp].id, 0, << >>)
                IN Entry(m, Replay("HunterAction", "action", s.day,
                                   targetId, m), m)
           ELSE LET m == Msg("hunterInvalid", 0, Null, 0, << >>)
                IN Entry(m, Replay("HunterAction", "system", s.day,
                                   Null, m), NoMsg)
    ELSE LET m == Msg("hunterPass", 0, Null, 0, << >>)
         IN Entry(m, Replay("HunterAction", "decision", s.day, Null, m),
                  NoMsg)

\* The line announcing the phase the game continues with after the shot.
continueEntry(s) ==
  LET m == Msg(IF s.hunterPending.context = "night"
                 THEN "nightContinues" ELSE "dayContinues",
               0, Null, 0, << >>)
  IN Entry(m, Replay(s.hunterPending.nextPhase, "phase", s.day, Null, m),
           NoMsg)

\* hunterOutcome, mutated: the game continues with the day whatever the
\* pending shot recorded.
hunterOutcomeToDay(s, base, winner, entry) ==
  IF winner # "none"
    THEN [withLogs(base, << entry, gameOverEntry(winner, s.day) >>)
            EXCEPT !.phase = "GameOver",
                   !.winner = winner,
                   !.hunterPending = NoPending]
    ELSE [withLogs(base, << entry, continueEntry(s) >>)
            EXCEPT !.phase = "Day",
                   !.hunterPending = NoPending]

\* hunterOutcome, mutated: a shot after which the game goes on leaves the
\* pending shot in place.
hunterOutcomeKeepsPending(s, base, winner, entry) ==
  IF winner # "none"
    THEN [withLogs(base, << entry, gameOverEntry(winner, s.day) >>)
            EXCEPT !.phase = "GameOver",
                   !.winner = winner,
                   !.hunterPending = NoPending]
    ELSE [withLogs(base, << entry, continueEntry(s) >>)
            EXCEPT !.phase = s.hunterPending.nextPhase]

\* The two ways HUNTER_SHOOT ends: a winner, or the phase that was put off.
hunterOutcome(s, base, winner, entry) ==
  IF winner # "none"
    THEN [withLogs(base, << entry, gameOverEntry(winner, s.day) >>)
            EXCEPT !.phase = "GameOver",
                   !.winner = winner,
                   !.hunterPending = NoPending]
    ELSE [withLogs(base, << entry, continueEntry(s) >>)
            EXCEPT !.phase = s.hunterPending.nextPhase,
                   !.hunterPending = NoPending]

\* HUNTER_SHOOT past its guard.
hunterShot(s, targetId) ==
  With(hunterTarget(s, targetId), LAMBDA tp :
    With(IF tp # 0 THEN [s.players EXCEPT ![tp].isAlive = FALSE]
         ELSE s.players,
         LAMBDA players :
           hunterOutcome(s, [s EXCEPT !.players = players],
                         checkWinCondition(players),
                         shotEntry(s, targetId, tp))))

\* HUNTER_SHOOT, mutated: the shot is resolved without a pending hunter.
HUNTER_SHOOT_NoGuard(s, targetId) ==
  IF s.hunterPending = NoPending
    THEN hunterShot([s EXCEPT !.hunterPending =
                       [playerId |-> Null, context |-> "day",
                        nextPhase |-> "Night"]], targetId)
    ELSE hunterShot(s, targetId)

HUNTER_SHOOT(s, targetId) ==
  IF s.hunterPending = NoPending THEN s ELSE hunterShot(s, targetId)

APPEND_LOG(s, entry) ==
  LET applied == applyLogEntry(LogsOf(s), entry)
  IN [s EXCEPT !.gameLog = applied.gameLog,
               !.replay = applied.replay,
               !.highlights = applied.highlights]

APPEND_LOG_BATCH(s, entries) ==
  LET applied == applyLogEntries(LogsOf(s), entries)
  IN [s EXCEPT !.gameLog = applied.gameLog,
               !.replay = applied.replay,
               !.highlights = applied.highlights]

SET_HIGHLIGHTS(s, highlights) == [s EXCEPT !.highlights = highlights]

\* ------------------------------------------------- orchestrator: decisions
\* One record type for every handler result: WerewolfDecision, SeerDecision and
\* HunterDecision use targetId, WitchDecision save / poisonTargetId,
\* VotingDecision votes, DiscussionEvent[] events; `undefined` (noop) is Void.
Decision(kind, targetId, save, poisonTargetId, votes, events) ==
  [kind |-> kind, targetId |-> targetId, save |-> save,
   poisonTargetId |-> poisonTargetId, votes |-> votes, events |-> events]

Void == Decision("void", Null, FALSE, Null, << >>, << >>)

alivePlayersOf(s) == SelectSeq(s.players, LAMBDA p : p.isAlive)

isRoleAlive(players, role) ==
  \E i \in 1..Len(players) : players[i].role = role /\ players[i].isAlive

noop(c) == Void

fallbackWerewolf(c) ==
  LET alive == alivePlayersOf(c)
      at == FindIdx(alive, LAMBDA p : p.role # "Werewolf")
  IN Decision("werewolf", IF at = 0 THEN Null ELSE alive[at].id,
              FALSE, Null, << >>, << >>)

fallbackSeer(c) ==
  LET alive == alivePlayersOf(c)
      at == FindIdx(alive, LAMBDA p : p.role # "Seer")
  IN Decision("seer", IF at = 0 THEN Null ELSE alive[at].id,
              FALSE, Null, << >>, << >>)

fallbackWitch(c) == Decision("witch", Null, FALSE, Null, << >>, << >>)

fallbackDiscussion(c) ==
  LET alive == alivePlayersOf(c)
  IN Decision("discussion", Null, FALSE, Null, << >>,
       [i \in 1..Len(alive) |-> [speakerId |-> alive[i].id, speech |-> "silent"]])

fallbackVoting(c) ==
  With(alivePlayersOf(c), LAMBDA alive :
    Decision("voting", Null, FALSE, Null,
      [i \in 1..Len(alive) |->
         With(FindIdx(alive, LAMBDA q : q.id # alive[i].id), LAMBDA other :
           [voterId |-> alive[i].id,
            targetId |-> IF other = 0 THEN Null ELSE alive[other].id])],
      << >>))

fallbackHunter(c) == Decision("hunter", Null, FALSE, Null, << >>, << >>)

fallbackPostVoteDiscussion(c) ==
  LET alive == alivePlayersOf(c)
  IN Decision("postVoteDiscussion", Null, FALSE, Null, << >>,
       [i \in 1..Len(alive) |->
          [speakerId |-> alive[i].id, speech |-> "watching",
           wantsContinue |-> FALSE]])

fallbackPostVoteFollowUp(c) ==
  Decision("postVoteFollowUp", Null, FALSE, Null, << >>, << >>)

\* The fallback safeInvoke is given at each decision point.
Fallback(point, c) ==
  CASE point = "onWerewolfAction" -> fallbackWerewolf(c)
    [] point = "onSeerAction" -> fallbackSeer(c)
    [] point = "onWitchAction" -> fallbackWitch(c)
    [] point = "onDiscussion" -> fallbackDiscussion(c)
    [] point = "onVoting" -> fallbackVoting(c)
    [] point = "onHunterAction" -> fallbackHunter(c)
    [] point = "onPostVoteDiscussion" -> fallbackPostVoteDiscussion(c)
    [] point = "onPostVoteFollowUp" -> fallbackPostVoteFollowUp(c)
    [] OTHER -> noop(c)

\* What a handler call does: it throws / rejects, or it returns `value`
\* (kind "null": null or undefined).
Threw == [kind |-> "throw", value |-> Void]
ReturnedNull == [kind |-> "null", value |-> Void]
\* The handler returns a promise that never settles.
Hangs == [kind |-> "pending", value |-> Void]
Returned(v) == [kind |-> "value", value |-> v]

\* safeInvoke, mutated: no try / catch around the handler.
safeInvokeNoCatch(outcome, fallback) ==
  IF outcome.kind = "throw" THEN [threw |-> TRUE, value |-> Void]
  ELSE IF outcome.kind = "null" THEN [threw |-> FALSE, value |-> fallback]
  ELSE [threw |-> FALSE, value |-> outcome.value]

\* safeInvoke, mutated: a null / undefined result is returned as it is.
safeInvokeNoNullish(outcome, fallback) ==
  IF outcome.kind = "throw" THEN [threw |-> FALSE, value |-> fallback]
  ELSE [threw |-> FALSE, value |-> outcome.value]

\* safeInvoke(fn, fallback, ...args), given what fn(...args) did and what
\* fallback(...args) returns: [threw, value].
safeInvoke(outcome, fallback) ==
  IF outcome.kind = "throw" THEN [threw |-> FALSE, value |-> fallback]
  ELSE IF outcome.kind = "null" THEN [threw |-> FALSE, value |-> fallback]
  ELSE [threw |-> FALSE, value |-> outcome.value]

MAX_CYCLES == 50

\* ------------------------------------------------------------------ inputs
\* Math.random() draws of one shuffle: rnd[i] = floor(random * (i + 1)).
DrawIdentity == [i \in 1..9 |-> i]
DrawZero == [i \in 1..9 |-> 0]
SomeNames == << << " ", "A", " " >>, << " " >>, << "B" >> >>

StartInputs ==
  { [names |-> << >>, rnd |-> DrawIdentity],
    [names |-> SomeNames, rnd |-> DrawZero],
    [names |-> << >>, rnd |-> [i \in 1..9 |-> i \div 2]],
    [names |-> SomeNames, rnd |-> [i \in 1..9 |-> i - 1]] }

UnknownId == 11
Note == Msg("note", 0, Null, 0, << >>)

\* The lists SET_HIGHLIGHTS is given: the empty list and a list of one line.
HighlightLists == {<< >>, << Note >>}

\* The callers of the reducer are explored one input alphabet at a time: a
\* behaviour keeps the alphabet (`scenario`) it starts with.  Seats by role:
\* before the first START_GAME (ROLE_PRESET) 1-3 Werewolf, 4 Seer, 5 Witch,
\* 6 Hunter; after START_GAME with DrawIdentity 1-3 Werewolf, 7 Seer, 8 Witch,
\* 9 Hunter; with DrawZero 1, 2, 10 Werewolf, 6 Seer, 7 Witch, 8 Hunter.
Scenarios ==
  {"start", "witch", "hunter", "vote", "log", "wolves", "villagers",
   "highlights", "ghost"}

Alphabet(sc) ==
  CASE sc = "start" ->
         [starts |-> StartInputs,
          phases |-> {}, notes |-> {},
          wolf |-> {1}, seer |-> {}, save |-> FALSE, poison |-> {2},
          voters |-> {4}, voteTargets |-> {3}, hunter |-> {},
          append |-> FALSE, batch |-> FALSE, slack |-> 0]
    [] sc = "witch" ->
         [starts |-> {[names |-> << >>, rnd |-> DrawIdentity]},
          phases |-> {}, notes |-> {},
          wolf |-> {4, UnknownId}, seer |-> {}, save |-> TRUE,
          poison |-> {4, 1}, voters |-> {}, voteTargets |-> {},
          hunter |-> {}, append |-> FALSE, batch |-> FALSE, slack |-> 0]
    [] sc = "hunter" ->
         [starts |-> {[names |-> << >>, rnd |-> DrawIdentity]},
          phases |-> {}, notes |-> {},
          wolf |-> {6, 9}, seer |-> {}, save |-> FALSE, poison |-> {1},
          voters |-> {7}, voteTargets |-> {2, 9},
          hunter |-> {Null, 1, UnknownId}, append |-> FALSE, batch |-> FALSE, slack |-> 0]
    [] sc = "vote" ->
         [starts |-> {},
          phases |-> {}, notes |-> {},
          wolf |-> {}, seer |-> {}, save |-> FALSE, poison |-> {},
          voters |-> {4, 7, 9}, voteTargets |-> {2, 8},
          hunter |-> {}, append |-> FALSE, batch |-> FALSE, slack |-> 0]
    [] sc = "log" ->
         [starts |-> {[names |-> << >>, rnd |-> DrawZero]},
          phases |-> {"Night", "Voting"}, notes |-> {NoMsg, Note},
          wolf |-> {}, seer |-> {1, 4}, save |-> FALSE, poison |-> {},
          voters |-> {}, voteTargets |-> {},
          hunter |-> {}, append |-> TRUE,
          batch |-> FALSE, slack |-> 0]
    [] sc = "wolves" ->
         [starts |-> {},
          phases |-> {}, notes |-> {},
          wolf |-> {4, 7}, seer |-> {}, save |-> FALSE,
          poison |-> {5}, voters |-> {1}, voteTargets |-> {6},
          hunter |-> {8}, append |-> FALSE, batch |-> FALSE, slack |-> 2]
    [] sc = "villagers" ->
         [starts |-> {[names |-> << >>, rnd |-> DrawIdentity]},
          phases |-> {"Night"}, notes |-> {NoMsg},
          wolf |-> {1, 3}, seer |-> {}, save |-> FALSE,
          poison |-> {2}, voters |-> {1}, voteTargets |-> {UnknownId},
          hunter |-> {}, append |-> FALSE, batch |-> FALSE, slack |-> 0]
    [] sc = "highlights" ->
         [starts |-> {},
          phases |-> {}, notes |-> {},
          wolf |-> {}, seer |-> {}, save |-> FALSE, poison |-> {},
          voters |-> {}, voteTargets |-> {},
          hunter |-> {}, append |-> TRUE, batch |-> TRUE, slack |-> 0]
    [] sc = "ghost" ->
         [starts |-> {},
          phases |-> {}, notes |-> {},
          wolf |-> {4}, seer |-> {}, save |-> FALSE, poison |-> {},
          voters |-> {4, UnknownId}, voteTargets |-> {5},
          hunter |-> {}, append |-> FALSE, batch |-> FALSE, slack |-> 0]

\* ------------------------------------------------------------------- state
VARIABLES
  state,      \* the GameState held by useReducer (stateRef.current follows it)
  prev,       \* the GameState the last dispatched action was applied to
  last,       \* the last dispatched action: [type, a, b]
  dispatched, \* the actions the running sequence has dispatched, in order
  witchEffects, \* since the last START_GAME: the nights that cancelled a
              \* kill by the save, and those that registered a poison death
  scenario,   \* the input alphabet of this behaviour
  handlers,   \* what the customHandlers given to useGameOrchestrator do
  top,        \* the orchestrator call in progress: idle, full, night
  seq,        \* the sequence in progress inside it: none, night, day
  pc,         \* the await the call in progress is suspended at
  cycleCount, \* runFullCycle's cycleCount
  ctx,        \* the context snapshot (getContext) of the running sequence
  call,       \* the last safeInvoke: [point, args, kind, returned, decision,
              \* threw]
  result,     \* how the last orchestrator call ended: [op, status]
  pending,    \* runHunterStage's `pending`
  todo,       \* the discussion events still to be announced
  postVote,   \* runPostVoteDiscussionSequence: [pc, round, allSpeeches, calls]
  tempo,      \* tempoRef.current and the calls of waitWhilePaused in progress:
              \* [paused, pauseResolvers, waits, event]
  ai,         \* the refs of useAiOrchestrator and the position of its
              \* onWerewolfAction: [enabled, offlineNotice, pausedRef, pc, i,
              \* responses]
  run         \* what the auto-run and the AI handlers have done since the
              \* last resetAllAgents: [game, ctxGame, nights, failed,
              \* notices, lateCalls, decided, sent]

engineVars == << state, prev, last, witchEffects, dispatched >>
orchVars == << top, seq, pc, cycleCount, ctx, call, result, pending, todo >>
auxVars == << postVote, tempo, ai, run >>
vars == << state, prev, last, witchEffects, dispatched, scenario, handlers, top, seq, pc,
           cycleCount, ctx, call, result, pending, todo, postVote, tempo, ai, run >>

Action(type, a, b) == [type |-> type, a |-> a, b |-> b]

NoCall ==
  [point |-> "none", args |-> createInitialGameState, kind |-> "none",
   returned |-> Void, decision |-> Void, threw |-> FALSE]
NoResult == [op |-> "none", status |-> "none", cycleCount |-> 0]

\* No post-vote discussion is running.
NoPostVote ==
  [pc |-> "idle", round |-> 0, allSpeeches |-> << >>, calls |-> << >>]

\* The sequences of the orchestrator that a caller can have in progress at the
\* same time, each suspended in its own waitWhilePaused.
Waiters == {"runFullCycle", "runNightSequence"}

NotWaiting == [pc |-> "out", waited |-> 0]

\* tempoRef's initial value; pauseResolvers holds the waiters whose promise of
\* the current loop iteration is unsettled (a resolver of a settled promise
\* does nothing when it is called).
InitTempo ==
  [paused |-> FALSE, pauseResolvers |-> {},
   waits |-> [w \in Waiters |-> NotWaiting],
   event |-> [type |-> "none", waiter |-> "none"]]

\* No action has been dispatched by the auto-run or by an AI handler.
NoSent == [by |-> "none", paused |-> FALSE, game |-> 0, ctxGame |-> 0]

\* useAiOrchestrator after its first render with an API key configured.
InitAi ==
  [enabled |-> TRUE, offlineNotice |-> FALSE, pausedRef |-> FALSE,
   pc |-> "idle", i |-> 0, responses |-> << >>]

InitRun ==
  [game |-> 0, ctxGame |-> 0, nights |-> 0, failed |-> FALSE, notices |-> 0,
   lateCalls |-> 0, decided |-> "none", sent |-> NoSent]

InitOrchestrator ==
  /\ dispatched = << >>
  /\ postVote = NoPostVote
  /\ tempo = InitTempo
  /\ ai = InitAi
  /\ run = InitRun
  /\ top = "idle"
  /\ seq = "none"
  /\ pc = "idle"
  /\ cycleCount = 0
  /\ ctx = createInitialGameState
  /\ call = NoCall
  /\ result = NoResult
  /\ pending = NoPending
  /\ todo = << >>

NoEffects == [cancels |-> 0, poisonings |-> 0]

Counted(effects, s, action) ==
  IF action.type = "START_GAME" THEN NoEffects
  ELSE IF action.type = "RESOLVE_NIGHT"
    THEN [cancels |-> effects.cancels + (IF savedKill(s) THEN 1 ELSE 0),
          poisonings |-> effects.poisonings + (IF poisonDeath(s) THEN 1 ELSE 0)]
  ELSE effects

InitEngine ==
  /\ state = createInitialGameState
  /\ prev = createInitialGameState
  /\ last = Action("init", Null, Null)
  /\ witchEffects = NoEffects

\* The reducer driven directly by a caller of useGameLogic.
Init ==
  /\ InitEngine
  /\ InitOrchestrator
  /\ scenario \in Scenarios
  /\ handlers = "default"

\* dispatch(action): the reducer's result replaces the state.
Dispatch(next, action) ==
  /\ Len(next.gameLog) <= MaxLog + Alphabet(scenario).slack
  /\ state' = next
  /\ prev' = state
  /\ last' = action
  /\ witchEffects' = Counted(witchEffects, state, action)
  /\ UNCHANGED dispatched
  /\ UNCHANGED << scenario, handlers >>
  /\ UNCHANGED orchVars
  /\ UNCHANGED auxVars

startGame ==
  \E in \in Alphabet(scenario).starts :
    Dispatch(START_GAME(state, in.names, in.rnd),
             Action("START_GAME", Null, Null))

setPhase ==
  \E phase \in Alphabet(scenario).phases, log \in Alphabet(scenario).notes :
    Dispatch(SET_PHASE(state, [phase |-> phase, log |-> log,
                               replay |-> NoReplay, highlight |-> NoMsg]),
             Action("SET_PHASE", Null, Null))

setWerewolfTarget ==
  \E targetId \in Alphabet(scenario).wolf :
    Dispatch(WEREWOLF_ACTION(state, targetId),
             Action("WEREWOLF_ACTION", targetId, Null))

setSeerTarget ==
  \E targetId \in Alphabet(scenario).seer :
    Dispatch(SEER_ACTION(state, targetId),
             Action("SEER_ACTION", targetId, Null))

witchSave ==
  /\ Alphabet(scenario).save
  /\ Dispatch(WITCH_ACTION(state, [action |-> "save", targetId |-> Null]),
              Action("WITCH_SAVE", Null, Null))

witchPoison ==
  \E targetId \in Alphabet(scenario).poison :
    Dispatch(WITCH_ACTION(state, [action |-> "poison", targetId |-> targetId]),
             Action("WITCH_POISON", targetId, Null))

castVote ==
  \E voterId \in Alphabet(scenario).voters,
     targetId \in Alphabet(scenario).voteTargets :
    Dispatch(PLAYER_VOTE(state, voterId, targetId),
             Action("PLAYER_VOTE", voterId, targetId))

resolveNight ==
  Dispatch(RESOLVE_NIGHT(state), Action("RESOLVE_NIGHT", Null, Null))

resolveVoting ==
  /\ state.day < MaxDay
  /\ Dispatch(RESOLVE_VOTING(state), Action("RESOLVE_VOTING", Null, Null))

hunterShoot ==
  \E targetId \in Alphabet(scenario).hunter :
    Dispatch(HUNTER_SHOOT(state, targetId),
             Action("HUNTER_SHOOT", targetId, Null))

appendLog ==
  /\ Alphabet(scenario).append
  /\ Dispatch(APPEND_LOG(state, Entry(Note, NoReplay, Note)),
              Action("APPEND_LOG", Null, Null))

\* The batch of two entries: a line with its highlight, then a bare line.
appendLogs ==
  /\ Alphabet(scenario).batch
  /\ Dispatch(APPEND_LOG_BATCH(state, << Entry(Note, NoReplay, Note),
                                        Entry(Note, NoReplay, NoMsg) >>),
              Action("APPEND_LOG_BATCH", Null, Null))

setHighlights ==
  /\ Alphabet(scenario).batch
  /\ \E highlights \in HighlightLists :
       Dispatch(SET_HIGHLIGHTS(state, highlights),
                Action("SET_HIGHLIGHTS", Len(highlights), Null))

Next ==
  \/ startGame
  \/ setPhase
  \/ setWerewolfTarget
  \/ setSeerTarget
  \/ witchSave
  \/ witchPoison
  \/ castVote
  \/ resolveNight
  \/ resolveVoting
  \/ hunterShoot
  \/ appendLog
  \/ appendLogs
  \/ setHighlights

Spec == Init /\ [][Next]_vars

\* ---------------------------------------------------- orchestrator: handlers
HandlerModes ==
  {"default", "throwing", "nulls", "customNight", "customDay", "stalling",
   "hunted", "ceiling", "hanging"}

Observers == {"onNightStart", "onDayStart", "onGameOver"}

TargetDecision(kind, targetId) ==
  Decision(kind, targetId, FALSE, Null, << >>, << >>)

\* The decisions a custom handler returns while it still returns any.
CustomValues(point) ==
  CASE point = "onWerewolfAction" -> {TargetDecision("werewolf", 9)}
    [] point = "onWitchAction" ->
         { Decision("witch", Null, FALSE, 1, << >>, << >>),
           Decision("witch", Null, TRUE, Null, << >>, << >>) }
    [] point = "onHunterAction" -> {TargetDecision("hunter", 3)}
    [] point = "onSeerAction" -> {TargetDecision("seer", 1)}
    [] point = "onDiscussion" ->
         { Decision("discussion", Null, FALSE, Null, << >>,
                    << [speakerId |-> 4, speech |-> "custom"] >>) }
    [] point = "onPostVoteDiscussion" ->
         { Decision("postVoteDiscussion", Null, FALSE, Null, << >>,
                    << [speakerId |-> 4, speech |-> "custom",
                        wantsContinue |-> TRUE] >>) }
    [] point = "onVoting" ->
         { Decision("voting", Null, FALSE, Null,
                    << [voterId |-> 4, targetId |-> 2],
                       [voterId |-> 7, targetId |-> 3],
                       [voterId |-> 4, targetId |-> 3],
                       [voterId |-> 5, targetId |-> Null] >>, << >>),
           Decision("voting", Null, FALSE, Null,
                    << [voterId |-> 4, targetId |-> 2],
                       [voterId |-> 7, targetId |-> 3] >>, << >>) }
    [] OTHER -> {}

StallValues(point) ==
  CASE point = "onWerewolfAction" -> {Returned(TargetDecision("werewolf", Null))}
    [] point = "onVoting" ->
         {Returned(Decision("voting", Null, FALSE, Null, << >>, << >>))}
    [] OTHER -> {ReturnedNull}

\* The alive players that are no Werewolves.
goodGuys(c) == SelectSeq(alivePlayersOf(c), LAMBDA p : p.role # "Werewolf")

\* The id of the alive Hunter, Null if there is none.
aliveHunter(c) ==
  With(SelectSeq(alivePlayersOf(c), LAMBDA p : p.role = "Hunter"), LAMBDA hs :
    IF hs = << >> THEN Null ELSE Head(hs).id)

\* Handlers of a game that goes for the Hunter: the werewolves leave their
\* choice to the fallback until five good players are left, then they kill the
\* Hunter; nobody votes; the Hunter shoots the first good player alive, or
\* nobody.
HuntedValues(point, c) ==
  CASE point = "onWerewolfAction" ->
         IF Len(goodGuys(c)) <= 5 /\ aliveHunter(c) # Null
           THEN {Returned(TargetDecision("werewolf", aliveHunter(c)))}
           ELSE {ReturnedNull}
    [] point = "onVoting" ->
         {Returned(Decision("voting", Null, FALSE, Null, << >>, << >>))}
    [] point = "onHunterAction" ->
         { Returned(TargetDecision("hunter", fallbackWerewolf(c).targetId)),
           ReturnedNull }
    [] OTHER -> {ReturnedNull}

\* Handlers of a game that ends in the last iteration runFullCycle allows: the
\* werewolves leave their choice to the fallback while more than four good
\* players are alive, then they spare everybody until the iteration count has
\* reached `ceiling`; nobody ever votes.
CeilingValues(point, c, count, ceiling) ==
  CASE point = "onWerewolfAction" ->
         IF Len(goodGuys(c)) > 4 \/ count >= ceiling
           THEN {ReturnedNull}
           ELSE {Returned(TargetDecision("werewolf", Null))}
    [] point = "onVoting" ->
         {Returned(Decision("voting", Null, FALSE, Null, << >>, << >>))}
    [] OTHER -> {ReturnedNull}

\* What the handler registered for `point` can do when it is called with the
\* context c.  Without custom handlers the handler is the fallback itself.
HandlerResults(point, c) ==
  CASE handlers = "default" ->
         IF point \in Observers THEN {ReturnedNull}
         ELSE {Returned(Fallback(point, c))}
    [] handlers = "throwing" -> {Threw}
    [] handlers = "nulls" -> {ReturnedNull}
    [] handlers = "customNight" ->
         IF cycleCount \in 1..MaxCustomCycles
              /\ point \in {"onWerewolfAction", "onWitchAction", "onHunterAction"}
           THEN (IF point = "onWitchAction" THEN {} ELSE {Threw})
                  \cup {Returned(v) : v \in CustomValues(point)}
           ELSE {Threw}
    [] handlers = "customDay" ->
         IF cycleCount \in 1..MaxCustomCycles
              /\ point \in {"onSeerAction", "onDiscussion", "onVoting"}
           THEN {ReturnedNull} \cup {Returned(v) : v \in CustomValues(point)}
           ELSE {ReturnedNull}
    [] handlers = "stalling" -> StallValues(point)
    [] handlers = "hunted" -> HuntedValues(point, c)
    [] handlers = "ceiling" -> CeilingValues(point, c, cycleCount, MAX_CYCLES)
    [] handlers = "hanging" ->
         IF point \in Observers THEN {ReturnedNull} ELSE {Hangs}

\* `await fn(...args)` inside safeInvoke: the sequence goes on with what the
\* handler's promise settles with, and only when it settles.
Outcomes(point, c) ==
  {o \in HandlerResults(point, c) : o.kind # "pending"}

\* await safeInvoke(handlers[point], fallback, c) when the handler did `o`.
Invoked(point, c, o) ==
  LET r == safeInvoke(o, Fallback(point, c))
  IN [point |-> point, args |-> c, kind |-> o.kind, returned |-> o.value,
      decision |-> r.value, threw |-> r.threw]

\* ------------------------------------------------------ orchestrator: steps
\* dispatch(action) by a sequence that had dispatched `before`.
Dispatched(before, next, action, entry) ==
  /\ state' = next
  /\ prev' = state
  /\ last' = action
  /\ witchEffects' = Counted(witchEffects, state, action)
  /\ dispatched' = Append(before, entry)

Apply(next, action) == Dispatched(dispatched, next, action, action)

\* The call in progress ends: it returns, or rejects with an error.
Finish(status) ==
  /\ top' = "idle"
  /\ seq' = "none"
  /\ pc' = "idle"
  /\ result' = [op |-> top, status |-> status, cycleCount |-> cycleCount]

Fixed == UNCHANGED << scenario, handlers >> /\ UNCHANGED auxVars

isGameOver(s) == s.phase = "GameOver" \/ s.winner # "none"

PhaseOnly(phase) ==
  [phase |-> phase, log |-> NoMsg, replay |-> NoReplay, highlight |-> NoMsg]

PhaseLog(phase, log) ==
  [phase |-> phase, log |-> log, replay |-> NoReplay, highlight |-> NoMsg]

\* runFullCycle, mutated: the guard on RoleAssignment is dropped.
fullCycleStartsUnguarded(s) == TRUE

\* runFullCycle starts its loop unless the phase is RoleAssignment.
fullCycleStarts(s) == s.phase # "RoleAssignment"

SetPhase(payload) ==
  Dispatched(dispatched, SET_PHASE(state, payload),
             Action("SET_PHASE", Null, Null),
             Action("SET_PHASE", payload.phase, Null))

\* The first setPhase of a sequence.
FirstPhase(payload) ==
  Dispatched(<< >>, SET_PHASE(state, payload),
             Action("SET_PHASE", Null, Null),
             Action("SET_PHASE", payload.phase, Null))

\* An error thrown by a handler reaches the caller of the sequence.
Rejects(inv) ==
  /\ Finish("threw_callback")
  /\ call' = inv
  /\ UNCHANGED << engineVars, cycleCount, ctx, pending, todo >>

DoneLabel == IF seq = "night" THEN "n_done" ELSE "d_done"

\* runNightSequence up to its first await, called by `caller`.
NightPrefix(caller) ==
  /\ ctx' = state
  /\ FirstPhase(PhaseLog("Night", Msg("nightFalls", state.day + 1, Null, 0, << >>)))
  /\ top' = caller
  /\ seq' = "night"
  /\ pc' = "n_onNightStart"
  /\ UNCHANGED << call, result, pending, todo >>

\* runFullCycle after its loop: the ceiling check, then onGameOver is called.
Conclude ==
  /\ IF cycleCount >= MAX_CYCLES
       THEN Finish("threw_maxCycles")
       ELSE pc' = "f_onGameOver" /\ seq' = "none" /\ UNCHANGED << top, result >>
  /\ UNCHANGED << engineVars, cycleCount, ctx, call, pending, todo >>

OrchStarts ==
  { [names |-> << >>, rnd |-> DrawIdentity],
    [names |-> SomeNames, rnd |-> DrawZero] }

\* A caller of useGameLogic starts a new game while no sequence runs.
uiStartGame ==
  /\ top = "idle"
  /\ \E in \in OrchStarts :
       Dispatched(<< >>, START_GAME(state, in.names, in.rnd),
                  Action("START_GAME", Null, Null),
                  Action("START_GAME", Null, Null))
  /\ UNCHANGED orchVars
  /\ Fixed

\* The rules panel runs one night by hand on a game that has not left
\* RoleAssignment.
uiRunNightSequence ==
  /\ top = "idle"
  /\ state.phase = "RoleAssignment"
  /\ NightPrefix("night")
  /\ UNCHANGED cycleCount
  /\ Fixed

\* runFullCycle is called: it throws on RoleAssignment, else it enters the
\* loop and suspends at the first waitWhilePaused.
uiRunFullCycle ==
  /\ top = "idle"
  /\ result.status # "threw_maxCycles"
  /\ IF fullCycleStarts(state)
       THEN /\ top' = "full"
            /\ pc' = "f_cycle"
            /\ cycleCount' = 1
            /\ UNCHANGED << seq, result >>
       ELSE /\ result' = [op |-> "full", status |-> "threw_notStarted",
                            cycleCount |-> 0]
            /\ UNCHANGED << top, seq, pc, cycleCount >>
  /\ UNCHANGED << engineVars, ctx, call, pending, todo >>
  /\ Fixed

\* One loop iteration after waitWhilePaused: break, or start the night.
fullCycle ==
  /\ pc = "f_cycle"
  /\ IF isGameOver(state) THEN Conclude
     ELSE NightPrefix("full") /\ UNCHANGED cycleCount
  /\ Fixed

nightOnStart ==
  /\ pc = "n_onNightStart"
  /\ \E o \in Outcomes("onNightStart", ctx) :
       LET inv == Invoked("onNightStart", ctx, o)
       IN IF inv.threw THEN Rejects(inv)
          ELSE /\ call' = inv
               /\ SetPhase(PhaseOnly("WerewolfAction"))
               /\ pc' = "n_wolf"
               /\ UNCHANGED << top, seq, cycleCount, ctx, result, pending, todo >>
  /\ Fixed

nightWolf ==
  /\ pc = "n_wolf"
  /\ \E o \in Outcomes("onWerewolfAction", ctx) :
       LET inv == Invoked("onWerewolfAction", ctx, o)
       IN IF inv.threw THEN Rejects(inv)
          ELSE /\ call' = inv
               /\ Apply(WEREWOLF_ACTION(state, inv.decision.targetId),
                        Action("WEREWOLF_ACTION", inv.decision.targetId, Null))
               /\ pc' = "n_seerPhase"
               /\ UNCHANGED << top, seq, cycleCount, ctx, result, pending, todo >>
  /\ Fixed

\* The witch's turn if she was alive at the start of the night, else the
\* night is resolved.
WitchPhaseOrResolve ==
  /\ IF isRoleAlive(alivePlayersOf(ctx), "Witch")
       THEN SetPhase(PhaseOnly("WitchAction")) /\ pc' = "n_witch"
       ELSE /\ Apply(RESOLVE_NIGHT(state), Action("RESOLVE_NIGHT", Null, Null))
            /\ pc' = "n_settled"
  /\ UNCHANGED << top, seq, cycleCount, ctx, call, result, pending, todo >>

nightSeerPhase ==
  /\ pc = "n_seerPhase"
  /\ IF isRoleAlive(alivePlayersOf(ctx), "Seer")
       THEN /\ SetPhase(PhaseOnly("SeerAction"))
            /\ pc' = "n_seer"
            /\ UNCHANGED << top, seq, cycleCount, ctx, call, result, pending, todo >>
       ELSE WitchPhaseOrResolve
  /\ Fixed

nightSeer ==
  /\ pc = "n_seer"
  /\ \E o \in Outcomes("onSeerAction", ctx) :
       LET inv == Invoked("onSeerAction", ctx, o)
       IN IF inv.threw THEN Rejects(inv)
          ELSE /\ call' = inv
               /\ Apply(SEER_ACTION(state, inv.decision.targetId),
                        Action("SEER_ACTION", inv.decision.targetId, Null))
               /\ pc' = "n_witchPhase"
               /\ UNCHANGED << top, seq, cycleCount, ctx, result, pending, todo >>
  /\ Fixed

nightWitchPhase ==
  /\ pc = "n_witchPhase"
  /\ WitchPhaseOrResolve
  /\ Fixed

nightWitch ==
  /\ pc = "n_witch"
  /\ \E o \in Outcomes("onWitchAction", ctx) :
       LET inv == Invoked("onWitchAction", ctx, o)
           d == inv.decision
           saved == IF d.save
                      THEN WITCH_ACTION(state, [action |-> "save", targetId |-> Null])
                      ELSE state
       IN IF inv.threw THEN Rejects(inv)
          ELSE /\ call' = inv
               /\ IF d.poisonTargetId # Null
                    THEN /\ state' = WITCH_ACTION(saved, [action |-> "poison",
                                                         targetId |-> d.poisonTargetId])
                         /\ prev' = saved
                         /\ last' = Action("WITCH_POISON", d.poisonTargetId, Null)
                         /\ dispatched' =
                              (IF d.save
                                 THEN Append(dispatched, Action("WITCH_SAVE", Null, Null))
                                 ELSE dispatched)
                                \o << Action("WITCH_POISON", d.poisonTargetId, Null) >>
                         /\ UNCHANGED witchEffects
                    ELSE IF d.save
                      THEN Apply(saved, Action("WITCH_SAVE", Null, Null))
                      ELSE UNCHANGED engineVars
               /\ pc' = "n_resolve"
               /\ UNCHANGED << top, seq, cycleCount, ctx, result, pending, todo >>
  /\ Fixed

nightResolve ==
  /\ pc = "n_resolve"
  /\ Apply(RESOLVE_NIGHT(state), Action("RESOLVE_NIGHT", Null, Null))
  /\ pc' = "n_settled"
  /\ UNCHANGED << top, seq, cycleCount, ctx, call, result, pending, todo >>
  /\ Fixed

\* hunterStageDue, mutated: the sequences never run the hunter stage.
hunterStageNever(s) == FALSE

\* `if (stateRef.current.phase === 'HunterAction')` of the two sequences.
hunterStageDue(s) == s.phase = "HunterAction"

\* After resolveNight / resolveVoting: runHunterStage up to its first await
\* when the phase is HunterAction.
sequenceSettled ==
  /\ pc \in {"n_settled", "d_settled"}
  /\ IF hunterStageDue(state) /\ state.hunterPending # NoPending
       THEN /\ pending' = state.hunterPending
            /\ IF FindById(state.players, state.hunterPending.playerId) = 0
                 THEN /\ Apply(HUNTER_SHOOT(state, Null),
                               Action("HUNTER_SHOOT", Null, Null))
                      /\ pc' = DoneLabel
                 ELSE /\ pc' = "h_decide"
                      /\ UNCHANGED engineVars
       ELSE /\ pc' = DoneLabel
            /\ UNCHANGED << engineVars, pending >>
  /\ UNCHANGED << top, seq, cycleCount, ctx, call, result, todo >>
  /\ Fixed

hunterDecide ==
  /\ pc = "h_decide"
  /\ \E o \in Outcomes("onHunterAction", state) :
       LET inv == Invoked("onHunterAction", state, o)
       IN IF inv.threw THEN Rejects(inv)
          ELSE /\ call' = inv
               /\ Apply(HUNTER_SHOOT(state, inv.decision.targetId),
                        Action("HUNTER_SHOOT", inv.decision.targetId, Null))
               /\ pc' = "h_wait"
               /\ UNCHANGED << top, seq, cycleCount, ctx, result, pending, todo >>
  /\ Fixed

\* waitForPhase(pending.nextPhase): the phase is there, or the wait times out.
waitForPhase ==
  /\ pc = "h_wait"
  /\ IF state.phase = pending.nextPhase
       THEN pc' = DoneLabel /\ UNCHANGED << top, seq, result >>
       ELSE Finish("threw_timeout")
  /\ UNCHANGED << engineVars, cycleCount, ctx, call, pending, todo >>
  /\ Fixed

\* runNightSequence returns.
nightDone ==
  /\ pc = "n_done"
  /\ IF top = "night"
       THEN /\ Finish("returned")
            /\ UNCHANGED << engineVars, cycleCount, ctx, call, pending, todo >>
       ELSE IF isGameOver(state) THEN Conclude
       ELSE /\ pc' = "f_day"
            /\ seq' = "none"
            /\ UNCHANGED << engineVars, top, cycleCount, ctx, call, result,
                            pending, todo >>
  /\ Fixed

\* runDaySequence up to its first await.
fullDay ==
  /\ pc = "f_day"
  /\ ctx' = state
  /\ FirstPhase(PhaseLog("Day", Msg("dayBreaks", state.day, Null, 0, << >>)))
  /\ seq' = "day"
  /\ pc' = "d_onDayStart"
  /\ UNCHANGED << top, cycleCount, call, result, pending, todo >>
  /\ Fixed

dayOnStart ==
  /\ pc = "d_onDayStart"
  /\ \E o \in Outcomes("onDayStart", ctx) :
       LET inv == Invoked("onDayStart", ctx, o)
       IN IF inv.threw THEN Rejects(inv)
          ELSE /\ call' = inv
               /\ SetPhase(PhaseOnly("Discussion"))
               /\ pc' = "d_discussion"
               /\ UNCHANGED << top, seq, cycleCount, ctx, result, pending, todo >>
  /\ Fixed

\* The next speech is announced, or the vote is opened after the last one.
Announce(events) ==
  IF events # << >>
    THEN /\ SetPhase(PhaseLog("Discussion",
                              Msg("speech", 0, Head(events).speakerId, 0, << >>)))
         /\ todo' = Tail(events)
         /\ pc' = "d_speech"
    ELSE /\ SetPhase(PhaseLog("Voting", Msg("votingOpens", 0, Null, 0, << >>)))
         /\ todo' = << >>
         /\ pc' = "d_vote"

dayDiscussion ==
  /\ pc = "d_discussion"
  /\ \E o \in Outcomes("onDiscussion", ctx) :
       LET inv == Invoked("onDiscussion", ctx, o)
       IN IF inv.threw THEN Rejects(inv)
          ELSE /\ call' = inv
               /\ Announce(inv.decision.events)
               /\ UNCHANGED << top, seq, cycleCount, ctx, result, pending >>
  /\ Fixed

daySpeech ==
  /\ pc = "d_speech"
  /\ Announce(todo)
  /\ UNCHANGED << top, seq, cycleCount, ctx, call, result, pending >>
  /\ Fixed

\* The votes castVote is called for, mutated: all of them.
votesToCastAll(votes) == votes

\* The votes castVote is called for: `if (vote.targetId !== null)`.
votesToCast(votes) == SelectSeq(votes, LAMBDA vote : vote.targetId # Null)

\* The PLAYER_VOTE actions dispatched for the votes.
castActions(votes) ==
  [i \in 1..Len(votes) |->
     Action("PLAYER_VOTE", votes[i].voterId, votes[i].targetId)]

\* Each dispatched vote applied to the state the one before has left.
RECURSIVE castEach(_, _)
castEach(s, votes) ==
  IF votes = << >> THEN s
  ELSE castEach(PLAYER_VOTE(s, Head(votes).voterId, Head(votes).targetId),
                Tail(votes))

\* votingDecision.votes.forEach(castVote), null targets skipped.
castVotes(s, votes) == castEach(s, votesToCast(votes))

dayVote ==
  /\ pc = "d_vote"
  /\ \E o \in Outcomes("onVoting", ctx) :
       \E inv \in {Invoked("onVoting", ctx, o)} :
         IF inv.threw THEN Rejects(inv)
         ELSE \E voted \in {castVotes(state, inv.decision.votes)} :
                /\ call' = inv
                /\ state' = RESOLVE_VOTING(voted)
                /\ prev' = voted
                /\ last' = Action("RESOLVE_VOTING", Null, Null)
                /\ dispatched' =
                     (dispatched \o castActions(votesToCast(inv.decision.votes)))
                       \o << Action("RESOLVE_VOTING", Null, Null) >>
                /\ UNCHANGED witchEffects
                /\ pc' = "d_settled"
                /\ UNCHANGED << top, seq, cycleCount, ctx, result, pending,
                                todo >>
  /\ Fixed

\* runDaySequence returns: break, next iteration, or the loop ends.
dayDone ==
  /\ pc = "d_done"
  /\ IF isGameOver(state) \/ cycleCount >= MAX_CYCLES THEN Conclude
     ELSE /\ cycleCount' = cycleCount + 1
          /\ pc' = "f_cycle"
          /\ seq' = "none"
          /\ UNCHANGED << engineVars, top, ctx, call, result, pending, todo >>
  /\ Fixed

fullOnGameOver ==
  /\ pc = "f_onGameOver"
  /\ \E o \in Outcomes("onGameOver", state) :
       LET inv == Invoked("onGameOver", state, o)
       IN IF inv.threw THEN Rejects(inv)
          ELSE /\ call' = inv
               /\ Finish("returned")
               /\ UNCHANGED << engineVars, cycleCount, ctx, pending, todo >>
  /\ Fixed

\* The steps the event loop runs once the awaited promise has settled.
Continue ==
  \/ fullCycle
  \/ nightOnStart
  \/ nightWolf
  \/ nightSeerPhase
  \/ nightSeer
  \/ nightWitchPhase
  \/ nightWitch
  \/ nightResolve
  \/ sequenceSettled
  \/ hunterDecide
  \/ waitForPhase
  \/ nightDone
  \/ fullDay
  \/ dayOnStart
  \/ dayDiscussion
  \/ daySpeech
  \/ dayVote
  \/ dayDone
  \/ fullOnGameOver

NextOrch ==
  \/ uiStartGame
  \/ uiRunNightSequence
  \/ uiRunFullCycle
  \/ Continue

\* The orchestrator driving the reducer, for each behaviour of the handlers.
InitOrch ==
  /\ InitEngine
  /\ InitOrchestrator
  /\ scenario = "orchestrator"
  /\ handlers \in HandlerModes

SpecOrch == InitOrch /\ [][NextOrch]_vars

\* The orchestrator with handlers that throw on every call.  Every await of
\* the orchestrator is then on a promise that settles (a timer, or a handler
\* that has thrown), so a suspended sequence is resumed.
InitThrowing ==
  /\ InitEngine
  /\ InitOrchestrator
  /\ scenario = "orchestrator"
  /\ handlers = "throwing"

FairSpecOrch == InitThrowing /\ [][NextOrch]_vars /\ WF_vars(Continue)

\* --------------------------------------------------- safeInvoke on its own
InvokePoints ==
  {"onNightStart", "onWerewolfAction", "onSeerAction", "onWitchAction",
   "onDayStart", "onDiscussion", "onVoting", "onPostVoteDiscussion",
   "onPostVoteFollowUp", "onHunterAction", "onGameOver"}

\* Contexts a handler is called with: a fresh game, a dealt game, a game with
\* only werewolves left, a game with nobody left.
InvokeContexts ==
  LET fresh == createInitialGameState
      dealt == START_GAME(fresh, SomeNames, DrawZero)
  IN { fresh, dealt,
       [fresh EXCEPT !.players = applyDeaths(fresh.players, 4..10)],
       [dealt EXCEPT !.players = applyDeaths(dealt.players, 1..10)] }

\* What a handler may do at `point`: throw, return nothing, return the
\* fallback's own decision, or return a decision of its own.
InvokeOutcomes(point, c) ==
  {Threw, ReturnedNull, Returned(Fallback(point, c))}
    \cup {Returned(v) : v \in CustomValues(point)}

invoke ==
  /\ \E point \in InvokePoints :
       \E o \in InvokeOutcomes(point, state) :
         call' = Invoked(point, state, o)
  /\ UNCHANGED << engineVars, top, seq, pc, cycleCount, ctx, result, pending,
                  todo >>
  /\ Fixed

InitInvoke ==
  /\ state \in InvokeContexts
  /\ prev = state
  /\ last = Action("init", Null, Null)
  /\ witchEffects = NoEffects
  /\ InitOrchestrator
  /\ scenario = "safeInvoke"
  /\ handlers = "default"

NextInvoke == invoke

SpecInvoke == InitInvoke /\ [][NextInvoke]_vars

\* --------------------------------------------- checkWinCondition on its own
\* The players with the alive flags set for exactly the seats in `aliveSeats`.
withAlive(players, aliveSeats) ==
  [i \in 1..Len(players) |-> [players[i] EXCEPT !.isAlive = (i \in aliveSeats)]]

evaluateWin ==
  /\ result' = [op |-> "checkWinCondition",
                status |-> checkWinCondition(state.players),
                cycleCount |-> 0]
  /\ UNCHANGED << engineVars, top, seq, pc, cycleCount, ctx, call, pending,
                  todo >>
  /\ Fixed

InitWin ==
  /\ \E aliveSeats \in SUBSET (1..10) :
       \E dealt \in { createInitialGameState,
                      START_GAME(createInitialGameState, << >>, DrawZero) } :
         state = [dealt EXCEPT !.players = withAlive(dealt.players, aliveSeats)]
  /\ prev = state
  /\ last = Action("init", Null, Null)
  /\ witchEffects = NoEffects
  /\ InitOrchestrator
  /\ scenario = "checkWinCondition"
  /\ handlers = "default"

NextWin == evaluateWin

SpecWin == InitWin /\ [][NextWin]_vars

\* ------------------------------------- runPostVoteDiscussionSequence alone
\* The sub-sequence of the extended runDaySequence between the votes and
\* resolveVoting.  Its calls collectVoteSummary, startPostVoteDiscussion and
\* incrementPostVoteRound belong to a useGameLogic that is not in the
\* repository's sources; the loop reads nothing they write.
MAX_ROUNDS == 3

MaxSpeakers == 3

\* The PostVoteDiscussionEvent[] a handler may return: up to MaxSpeakers
\* speakers, each of whom wants to continue or not.
OpinionEvents ==
  UNION { { [i \in 1..n |-> [speakerId |-> i, speech |-> "opinion",
                              wantsContinue |-> f[i]]] :
            f \in [1..n -> BOOLEAN] } : n \in 0..MaxSpeakers }

\* The PostVoteFollowUpEvent[] a handler may return: each speaker has no
\* follow-up, a follow-up without a speech, or a follow-up with a speech.
FollowUpEvents ==
  UNION { { [i \in 1..n |-> [speakerId |-> i,
                              hasFollowUp |-> f[i] # "none",
                              speech |-> IF f[i] = "speech" THEN "more" ELSE ""]] :
            f \in [1..n -> {"none", "silent", "speech"}] } : n \in 0..MaxSpeakers }

PostVoteOutcomes(kind, events) ==
  {Threw, ReturnedNull}
    \cup {Returned(Decision(kind, Null, FALSE, Null, << >>, ev)) : ev \in events}

\* { speakerId, speech } of each event.
speechesOf(events) ==
  [i \in 1..Len(events) |->
     [speakerId |-> events[i].speakerId, speech |-> events[i].speech]]

wantsContinueCount(events) ==
  Len(SelectSeq(events, LAMBDA e : e.wantsContinue))

hasFollowUps(events) == SelectSeq(events, LAMBDA e : e.hasFollowUp)

\* The for loop, mutated: no ceiling on the rounds.
moreRoundsUncapped(round) == TRUE

\* The for loop's condition.
moreRounds(round) == round <= MAX_ROUNDS

\* The rest of a round once its handler has been called: break on fewer than
\* two takers, else round++ and the loop's test.
roundEnds(pv, point, speeches, count) ==
  With([pv EXCEPT !.allSpeeches = @ \o speeches,
                  !.calls = Append(@, [point |-> point, round |-> pv.round,
                                       count |-> count])],
       LAMBDA called :
         IF count < 2 THEN [called EXCEPT !.pc = "done"]
         ELSE [called EXCEPT !.round = @ + 1,
                             !.pc = IF moreRounds(pv.round + 1)
                                      THEN "round" ELSE "done"])

\* runPostVoteDiscussionSequence up to the first round.
runPostVoteDiscussionSequence ==
  /\ postVote.pc = "idle"
  /\ postVote' = [NoPostVote EXCEPT !.pc = "round", !.round = 1]
  /\ UNCHANGED << engineVars, orchVars, scenario, handlers, tempo, ai, run >>

\* Round 1: onPostVoteDiscussion.
postVoteOpinions ==
  /\ postVote.pc = "round"
  /\ postVote.round = 1
  /\ \E o \in PostVoteOutcomes("postVoteDiscussion", OpinionEvents) :
       \E events \in {safeInvoke(o, fallbackPostVoteDiscussion(ctx)).value.events} :
         postVote' = roundEnds(postVote, "onPostVoteDiscussion",
                               speechesOf(events), wantsContinueCount(events))
  /\ UNCHANGED << engineVars, orchVars, scenario, handlers, tempo, ai, run >>

\* A later round: onPostVoteFollowUp.
postVoteFollowUps ==
  /\ postVote.pc = "round"
  /\ postVote.round > 1
  /\ \E o \in PostVoteOutcomes("postVoteFollowUp", FollowUpEvents) :
       \E events \in {safeInvoke(o, fallbackPostVoteFollowUp(ctx)).value.events} :
         postVote' = roundEnds(postVote, "onPostVoteFollowUp",
                               speechesOf(SelectSeq(hasFollowUps(events),
                                                    LAMBDA e : e.speech # "")),
                               Len(hasFollowUps(events)))
  /\ UNCHANGED << engineVars, orchVars, scenario, handlers, tempo, ai, run >>

\* runPostVoteDiscussionSequence returns.
postVoteReturns ==
  /\ postVote.pc = "done"
  /\ postVote' = NoPostVote
  /\ UNCHANGED << engineVars, orchVars, scenario, handlers, tempo, ai, run >>

InitPostVote ==
  /\ InitEngine
  /\ InitOrchestrator
  /\ scenario = "postVote"
  /\ handlers = "default"

NextPostVote ==
  \/ runPostVoteDiscussionSequence
  \/ postVoteOpinions
  \/ postVoteFollowUps
  \/ postVoteReturns

\* Every await of the sub-sequence is on a timer or on a handler that settles.
FairSpecPostVote ==
  InitPostVote /\ [][NextPostVote]_vars
    /\ WF_vars(postVoteOpinions \/ postVoteFollowUps)

\* ------------------------------------------------- pause and resume alone
PAUSE_TIMEOUT == 30000

PauseTimer == 100

TempoEvent(type, w) == [type |-> type, waiter |-> w]

\* waitWhilePaused, mutated: the loop never gives up.
pauseTimedOutNever(waited) == FALSE

\* Date.now() - startTime > PAUSE_TIMEOUT.
pauseTimedOut(waited) == waited > PAUSE_TIMEOUT

\* One test of waitWhilePaused's loop by waiter w, `waited` ms after its
\* start: return, give up and force the flag, or queue a resolver and arm the
\* timer.
pauseLoop(tp, w, waited) ==
  IF ~tp.paused
    THEN [tp EXCEPT !.waits[w] = NotWaiting,
                    !.pauseResolvers = @ \ {w},
                    !.event = TempoEvent("returned", w)]
  ELSE IF pauseTimedOut(waited)
    THEN [tp EXCEPT !.paused = FALSE,
                    !.waits[w] = NotWaiting,
                    !.pauseResolvers = @ \ {w},
                    !.event = TempoEvent("timeout", w)]
  ELSE [tp EXCEPT !.waits[w] = [pc |-> "blocked", waited |-> waited],
                  !.pauseResolvers = @ \cup {w},
                  !.event = TempoEvent("blocked", w)]

\* resolvers.forEach(resolve): every waiter in `released` goes on with its
\* loop, in the order of the queue.
RECURSIVE releaseAll(_, _)
releaseAll(tp, released) ==
  IF released = {} THEN tp
  ELSE With(CHOOSE w \in released : TRUE, LAMBDA w :
         releaseAll(pauseLoop(tp, w, tp.waits[w].waited), released \ {w}))

\* useAiOrchestrator's effect on tempo.paused: pausedRef follows the flag.
PausedRefFollows == ai' = [ai EXCEPT !.pausedRef = tempo'.paused]

pause ==
  /\ ~tempo.paused
  /\ tempo' = [tempo EXCEPT !.paused = TRUE, !.event = TempoEvent("pause", "none")]
  /\ PausedRefFollows
  /\ UNCHANGED << engineVars, orchVars, scenario, handlers, postVote, run >>

resume ==
  /\ tempo.paused
  /\ tempo' = [releaseAll([tempo EXCEPT !.paused = FALSE, !.pauseResolvers = {}],
                          tempo.pauseResolvers)
                 EXCEPT !.event = TempoEvent("resume", "none")]
  /\ PausedRefFollows
  /\ UNCHANGED << engineVars, orchVars, scenario, handlers, postVote, run >>

\* A sequence calls waitWhilePaused.
waitWhilePaused ==
  /\ \E w \in Waiters :
       /\ tempo.waits[w].pc = "out"
       /\ tempo' = pauseLoop(tempo, w, 0)
  /\ PausedRefFollows
  /\ UNCHANGED << engineVars, orchVars, scenario, handlers, postVote, run >>

\* The timer of a blocked waiter fires, in time or late, and the waiter tests
\* the loop again.
timerOf(w) ==
  /\ tempo.waits[w].pc = "blocked"
  /\ \E waited \in {tempo.waits[w].waited + PauseTimer,
                      PAUSE_TIMEOUT + PauseTimer} :
       tempo' = pauseLoop(tempo, w, waited)
  /\ PausedRefFollows
  /\ UNCHANGED << engineVars, orchVars, scenario, handlers, postVote, run >>

pauseTimerFires == \E w \in Waiters : timerOf(w)

InitTempoSpec ==
  /\ InitEngine
  /\ InitOrchestrator
  /\ scenario = "tempo"
  /\ handlers = "default"

NextTempo ==
  \/ pause
  \/ resume
  \/ waitWhilePaused
  \/ pauseTimerFires

SpecTempo == InitTempoSpec /\ [][NextTempo]_vars

\* ------------------------------------- the auto-run with the AI handlers
\* The nights the auto-run plays and the games that are started in one
\* behaviour.
MaxNights == 2

MaxGames == 2

\* The caller of waitWhilePaused in the auto-run.
RunWaiter == "runNightSequence"

\* What the provider answers to one werewolf's request.
AgentReplies ==
  { [targetId |-> 4, confidence |-> 1],
    [targetId |-> Null, confidence |-> 2] }

RequestFailed == [targetId |-> Null, confidence |-> 0 - 1]

OfflineNotice == Msg("aiOffline", 0, Null, 0, << >>)

\* The line of the werewolves' choice, by the agents or by the offline rule.
choiceEntry(c, targetId, offline) ==
  LET m == Msg("wolfChoice", c.day + 1, targetId, IF offline THEN 1 ELSE 0, << >>)
  IN Entry(m, Replay("WerewolfAction", "action", c.day + 1, targetId, m),
           IF targetId # Null THEN m ELSE NoMsg)

\* One werewolf's speech: kept for the replay only, the message is empty.
speechEntry(c, wolfId) ==
  Entry(NoMsg,
        Replay("WerewolfAction", "decision", c.day + 1, wolfId,
               Msg("wolfSpeech", c.day + 1, wolfId, 0, << >>)),
        NoMsg)

wolvesOf(c) == SelectSeq(alivePlayersOf(c), LAMBDA p : p.role = "Werewolf")

\* responses.filter(targetId !== null).sort(by confidence, descending)[0], or
\* the first alive player of the context who is no werewolf.
bestTarget(responses, c) ==
  LET named == SelectSeq(responses, LAMBDA r : r.targetId # Null)
  IN IF named # << >>
       THEN named[CHOOSE k \in 1..Len(named) :
                    \A j \in 1..Len(named) :
                      \/ named[j].confidence < named[k].confidence
                      \/ named[j].confidence = named[k].confidence /\ k <= j]
              .targetId
       ELSE fallbackWerewolf(c).targetId

\* ensureOfflineNotice, mutated: the notice is appended whenever it is asked
\* for.
ensureOfflineNoticeAlways(a) ==
  [ai |-> [a EXCEPT !.offlineNotice = TRUE], appended |-> 1]

\* ensureOfflineNotice: the refs afterwards and the number of notices it
\* appended to the log.
ensureOfflineNotice(a) ==
  IF a.offlineNotice THEN [ai |-> a, appended |-> 0]
  ELSE [ai |-> [a EXCEPT !.offlineNotice = TRUE], appended |-> 1]

\* disableAiEngine: both of its branches end in ensureOfflineNotice.
disableAiEngine(a) ==
  IF ~a.enabled THEN ensureOfflineNotice(a)
  ELSE ensureOfflineNotice([a EXCEPT !.enabled = FALSE])

\* appendLogRef.current({ message }) once for every notice appended.
RECURSIVE noticed(_, _)
noticed(s, appended) ==
  IF appended = 0 THEN s
  ELSE noticed(APPEND_LOG(s, Entry(OfflineNotice, NoReplay, NoMsg)), appended - 1)

\* Who dispatched the last action of the auto-run, whether the pause flag was
\* set, which game it went to and which game the context snapshot is of.
Sent(by) ==
  [by |-> by, paused |-> tempo.paused, game |-> run.game,
   ctxGame |-> run.ctxGame]

\* The handler has logged what it had to (`logged`) and returns targetId; the
\* orchestrator goes on from its await with logic.setWerewolfTarget and enters
\* waitForTempo.
HandlerReturns(a, logged, targetId, kind, r) ==
  /\ ai' = [a EXCEPT !.pc = "idle", !.i = 0, !.responses = << >>]
  /\ state' = WEREWOLF_ACTION(logged, targetId)
  /\ prev' = logged
  /\ last' = Action("WEREWOLF_ACTION", targetId, Null)
  /\ witchEffects' = witchEffects
  /\ dispatched' = Append(dispatched, Action("WEREWOLF_ACTION", targetId, Null))
  /\ pc' = "r_tempoTarget"
  /\ run' = [r EXCEPT !.decided = kind, !.sent = Sent("run")]

\* offlineWerewolfDecision: the notice if it is due, the line of the choice,
\* and the first alive player of the context who is no werewolf. The decision
\* is "latched" when the handler found the engine disabled as it was called,
\* "offline" when its own request failed.
offlineWerewolfDecision(a, appendedBefore, r) ==
  \E n \in {ensureOfflineNotice(a)}, targetId \in {fallbackWerewolf(ctx).targetId} :
    HandlerReturns(
      n.ai,
      APPEND_LOG_BATCH(noticed(state, appendedBefore + n.appended),
                       << choiceEntry(ctx, targetId, TRUE) >>),
      targetId, IF ai.pc = "idle" THEN "latched" ELSE "offline",
      [r EXCEPT !.notices = @ + appendedBefore + n.appended])

\* `while (pausedRef.current)` of waitIfPaused, then invokeAgent for wolf i.
enterIteration(a, i) ==
  [a EXCEPT !.i = i, !.pc = IF a.pausedRef THEN "poll" ELSE "request"]

\* The provider is called once more, after a failure or not.
Requested(r, a) ==
  IF a.pc = "request" /\ r.failed THEN [r EXCEPT !.lateCalls = @ + 1] ELSE r

TempoWaits == {"r_tempoNight", "r_tempoWolf", "r_tempoTarget", "r_tempoResolved"}

SleepOf(p) ==
  CASE p = "r_tempoNight" -> "r_sleepNight"
    [] p = "r_tempoWolf" -> "r_sleepWolf"
    [] p = "r_tempoTarget" -> "r_sleepTarget"
    [] p = "r_tempoResolved" -> "r_sleepResolved"

RunFrame == UNCHANGED << scenario, handlers, top, seq, cycleCount, call, result,
                         pending, todo, postVote >>

\* GameBoard's effect on autoRunning calls runFullCycle, whose loop calls
\* runNightSequence: getContext and setPhase('Night'), up to waitForTempo.
autoRun ==
  /\ pc = "idle"
  /\ top = "idle"
  /\ run.game > 0
  /\ run.nights < MaxNights
  /\ ~isGameOver(state)
  /\ ctx' = state
  /\ FirstPhase(PhaseLog("Night", Msg("nightFalls", state.day + 1, Null, 0, << >>)))
  /\ pc' = "r_tempoNight"
  /\ run' = [run EXCEPT !.ctxGame = run.game,
                        !.sent = [Sent("run") EXCEPT !.ctxGame = run.game]]
  /\ UNCHANGED << tempo, ai >>
  /\ RunFrame

\* waitForTempo: waitWhilePaused returns at once, or the run is blocked in its
\* loop until resume or the timeout; then the last sleep of the delay begins.
waitForTempo ==
  /\ pc \in TempoWaits
  /\ tempo.waits[RunWaiter].pc = "out"
  /\ tempo' = pauseLoop(tempo, RunWaiter, 0)
  /\ pc' = IF tempo'.waits[RunWaiter].pc = "out" THEN SleepOf(pc) ELSE pc
  /\ PausedRefFollows
  /\ UNCHANGED << engineVars, ctx, run >>
  /\ RunFrame

\* After the first waitForTempo: onNightStart, then setPhase('WerewolfAction').
nightStarted ==
  /\ pc = "r_sleepNight"
  /\ SetPhase(PhaseOnly("WerewolfAction"))
  /\ pc' = "r_tempoWolf"
  /\ run' = [run EXCEPT !.sent = Sent("run")]
  /\ UNCHANGED << tempo, ai, ctx >>
  /\ RunFrame

\* handlers.onWerewolfAction is called: no wolves, the offline decision, or
\* the loop over the wolves up to its first await.
onWerewolfAction ==
  /\ pc = "r_sleepWolf"
  /\ IF wolvesOf(ctx) = << >>
       THEN HandlerReturns(ai, state, Null, "none", run)
     ELSE IF ~ai.enabled
       THEN offlineWerewolfDecision(ai, 0, run)
     ELSE /\ ai' = enterIteration([ai EXCEPT !.responses = << >>], 1)
          /\ run' = Requested(run, ai')
          /\ pc' = "r_invoke"
          /\ UNCHANGED engineVars
  /\ UNCHANGED << tempo, ctx >>
  /\ RunFrame

\* The timer of waitIfPaused (or of the pause between two wolves) fires and
\* pausedRef is clear: the next request goes out.
waitIfPaused ==
  /\ pc = "r_invoke"
  /\ ai.pc = "poll"
  /\ ~ai.pausedRef
  /\ ai' = [ai EXCEPT !.pc = "request"]
  /\ run' = Requested(run, ai')
  /\ UNCHANGED << engineVars, tempo, ctx, pc >>
  /\ RunFrame

\* invokeAgent settles: the request failed (disableAiEngine, break, offline
\* decision), or wolf i has answered and the loop goes on or ends.
invokeAgent ==
  /\ pc = "r_invoke"
  /\ ai.pc = "request"
  /\ \E reply \in AgentReplies \cup {RequestFailed} :
       IF reply = RequestFailed
         THEN \E n \in {disableAiEngine(ai)} :
                offlineWerewolfDecision(n.ai, n.appended,
                                        [run EXCEPT !.failed = TRUE])
       ELSE \E responses \in {Append(ai.responses, reply)},
               spoken \in {APPEND_LOG_BATCH(state,
                             << speechEntry(ctx, wolvesOf(ctx)[ai.i].id) >>)} :
           IF ai.i < Len(wolvesOf(ctx)) /\ ai.enabled
             THEN /\ ai' = [ai EXCEPT !.responses = responses,
                                      !.i = ai.i + 1, !.pc = "poll"]
                  /\ state' = spoken
                  /\ prev' = state
                  /\ last' = Action("APPEND_LOG_BATCH", Null, Null)
                  /\ run' = [run EXCEPT !.sent = Sent("ai")]
                  /\ UNCHANGED << witchEffects, dispatched, pc >>
           ELSE IF ~ai.enabled
             THEN offlineWerewolfDecision(ai, 0, run)
           ELSE \E targetId \in {bestTarget(responses, ctx)} :
                  HandlerReturns(
                    ai,
                    APPEND_LOG_BATCH(spoken, << choiceEntry(ctx, targetId, FALSE) >>),
                    targetId, "ai", run)
  /\ UNCHANGED << tempo, ctx >>
  /\ RunFrame

\* After the waitForTempo that follows setWerewolfTarget: logic.resolveNight().
nightResolved ==
  /\ pc = "r_sleepTarget"
  /\ Apply(RESOLVE_NIGHT(state), Action("RESOLVE_NIGHT", Null, Null))
  /\ pc' = "r_tempoResolved"
  /\ run' = [run EXCEPT !.sent = Sent("run")]
  /\ UNCHANGED << tempo, ai, ctx >>
  /\ RunFrame

\* runNightSequence returns to the loop of runFullCycle.
nightReturns ==
  /\ pc = "r_sleepResolved"
  /\ pc' = "idle"
  /\ run' = [run EXCEPT !.nights = @ + 1]
  /\ UNCHANGED << engineVars, tempo, ai, ctx >>
  /\ RunFrame

\* resetAllAgents: the refs are as after the first render; a handler that is
\* in flight stays where it is.
resetAllAgents(a) ==
  [a EXCEPT !.enabled = TRUE, !.offlineNotice = FALSE, !.pausedRef = FALSE]

\* GameBoard's handleStartGame: prepareNewGame (resetAllAgents, startGame),
\* then resume.
handleStartGame ==
  /\ run.game < MaxGames
  /\ ai' = resetAllAgents(ai)
  /\ \E in \in {[names |-> << >>, rnd |-> DrawIdentity]} :
       Dispatched(<< >>, START_GAME(state, in.names, in.rnd),
                  Action("START_GAME", Null, Null),
                  Action("START_GAME", Null, Null))
  /\ tempo' = IF tempo.paused
                THEN [releaseAll([tempo EXCEPT !.paused = FALSE,
                                               !.pauseResolvers = {}],
                                 tempo.pauseResolvers)
                        EXCEPT !.event = TempoEvent("resume", "none")]
                ELSE tempo
  /\ run' = [run EXCEPT !.game = @ + 1, !.failed = FALSE, !.notices = 0,
                        !.lateCalls = 0, !.decided = "none",
                        !.sent = [Sent("ui") EXCEPT !.game = run.game + 1,
                                                    !.paused = FALSE]]
  /\ UNCHANGED << ctx, pc >>
  /\ RunFrame

\* The 100 ms timer of the run's waitWhilePaused fires: the pause has lasted
\* no longer than PAUSE_TIMEOUT (every such time is taken as PauseTimer), or
\* longer.
runTimerFires ==
  /\ pc \in TempoWaits
  /\ tempo.waits[RunWaiter].pc = "blocked"
  /\ \E waited \in {PauseTimer, PAUSE_TIMEOUT + PauseTimer} :
       tempo' = pauseLoop(tempo, RunWaiter, waited)
  /\ PausedRefFollows
  /\ UNCHANGED << engineVars, ctx, pc, run >>
  /\ RunFrame

\* The steps of the run and of the handler that need no user: timers and
\* settled promises.
RunStep ==
  \/ waitForTempo
  \/ nightStarted
  \/ onWerewolfAction
  \/ waitIfPaused
  \/ invokeAgent
  \/ nightResolved
  \/ nightReturns
  \/ runTimerFires

InitRunSpec ==
  /\ InitEngine
  /\ InitOrchestrator
  /\ scenario = "autoRun"
  /\ handlers = "ai"

NextRun ==
  \/ handleStartGame
  \/ autoRun
  \/ pause
  \/ resume
  \/ RunStep

\* waitWhilePaused returns to the run.
tempoPassed == waitForTempo /\ pc' # pc

\* Timers fire and the provider settles every request; the user may never
\* press a button again, and a user who goes on pressing pause and resume does
\* not hit the paused flag at every test of it: a loop that is released by
\* resume goes on before the next click.
FairSpecRun ==
  /\ InitRunSpec /\ [][NextRun]_vars
  /\ WF_vars(RunStep)
  /\ SF_vars(tempoPassed)
  /\ SF_vars(waitIfPaused)

\* ------------------------------------------------------------ properties
\* C1: after START_GAME, from any state and with any names, there are exactly
\* 10 players with ids 1..10 in seat order, all alive, and their roles are a
\* permutation of the pool: 3 Werewolf, 1 Seer, 1 Witch, 1 Hunter, 4 Villager.
C1_StartGameDeals ==
  last.type = "START_GAME" =>
    /\ Len(state.players) = 10
    /\ \A i \in 1..Len(state.players) :
         state.players[i].id = i /\ state.players[i].isAlive
    /\ Count(state.players, LAMBDA p : p.role = "Werewolf") = 3
    /\ Count(state.players, LAMBDA p : p.role = "Seer") = 1
    /\ Count(state.players, LAMBDA p : p.role = "Witch") = 1
    /\ Count(state.players, LAMBDA p : p.role = "Hunter") = 1
    /\ Count(state.players, LAMBDA p : p.role = "Villager") = 4

\* A game restarted after a death, with roles dealt in another order than
\* the pool's.
C1_Witness ==
  /\ last.type = "START_GAME"
  /\ \E i \in 1..Len(prev.players) : ~prev.players[i].isAlive
  /\ [i \in 1..Len(state.players) |-> state.players[i].role] # ROLE_POOL

C9_PotionsOncePerGame ==
  /\ last.type # "START_GAME" =>
       /\ prev.witchState.saveUsed => state.witchState.saveUsed
       /\ prev.witchState.poisonUsed => state.witchState.poisonUsed
  /\ witchEffects.cancels <= 1
  /\ witchEffects.poisonings <= 1

\* A later night of a game whose save and poison both took effect earlier:
\* the werewolves' victim dies.
C9_Witness ==
  /\ last.type = "RESOLVE_NIGHT"
  /\ witchEffects = [cancels |-> 1, poisonings |-> 1]
  /\ ~savedKill(prev)
  /\ ~poisonDeath(prev)
  /\ prev.witchState.saveUsed
  /\ prev.witchState.poisonUsed
  /\ \E i \in 1..Len(prev.players) :
       /\ prev.players[i].id = prev.werewolfChoice
       /\ prev.players[i].isAlive
       /\ ~state.players[i].isAlive

\* C10: the votes list never holds two entries of one voter; after
\* PLAYER_VOTE it holds the voter's new target, and the entries of the other
\* voters are the ones it held before.
C10_OneVotePerVoter ==
  /\ \A i, j \in 1..Len(state.votes) :
       state.votes[i].voterId = state.votes[j].voterId => i = j
  /\ last.type = "PLAYER_VOTE" =>
       /\ \E i \in 1..Len(state.votes) :
            state.votes[i] = [voterId |-> last.a, targetId |-> last.b]
       /\ SelectSeq(state.votes, LAMBDA vote : vote.voterId # last.a)
            = SelectSeq(prev.votes, LAMBDA vote : vote.voterId # last.a)

\* A voter changes their vote while another voter's vote stands.
C10_Witness ==
  /\ last.type = "PLAYER_VOTE"
  /\ \E i \in 1..Len(prev.votes) :
       prev.votes[i].voterId = last.a /\ prev.votes[i].targetId # last.b
  /\ \E i \in 1..Len(prev.votes) : prev.votes[i].voterId # last.a

\* C2: for every assignment of alive flags, checkWinCondition returns
\* Villagers exactly when no werewolf is alive, Werewolves exactly when some
\* werewolf is alive and the alive werewolves are at least as many as the
\* alive others, and none otherwise.
C2_WinCondition ==
  result.op = "checkWinCondition" =>
    LET wolves == Count(state.players,
                        LAMBDA p : p.isAlive /\ p.role = "Werewolf")
        others == Count(state.players,
                        LAMBDA p : p.isAlive /\ p.role # "Werewolf")
    IN /\ result.status \in {"Villagers", "Werewolves", "none"}
       /\ result.status = "Villagers" <=> wolves = 0
       /\ result.status = "Werewolves" <=> (wolves > 0 /\ wolves >= others)
       /\ result.status = "none" <=> (wolves > 0 /\ wolves < others)

\* Werewolves win on parity: two werewolves and two others alive.
C2_Witness ==
  /\ result.op = "checkWinCondition"
  /\ result.status = "Werewolves"
  /\ Count(state.players, LAMBDA p : p.isAlive /\ p.role = "Werewolf") = 2
  /\ Count(state.players, LAMBDA p : p.isAlive /\ p.role # "Werewolf") = 2

\* C3: at every decision point, when the handler throws / rejects or returns
\* null / undefined, safeInvoke yields exactly the fallback's decision for the
\* same context and no error reaches the caller; a non-null value is used
\* unchanged.
C3_SafeInvokeFallsBack ==
  call.point # "none" =>
    /\ ~call.threw
    /\ call.kind \in {"throw", "null"} =>
         call.decision = Fallback(call.point, call.args)
    /\ call.kind = "value" => call.decision = call.returned

\* The voting handler threw and the fallback's votes are the decision.
C3_Witness ==
  /\ call.point = "onVoting"
  /\ call.kind = "throw"
  /\ call.decision = fallbackVoting(call.args)
  /\ call.decision.votes # << >>

\* C4: runFullCycle, running with handlers that throw on every call, ends:
\* it returns with the engine in GameOver, or it throws at the iteration
\* ceiling; no handler error reaches its caller.
C4_FallbackLiveness ==
  /\ [](handlers = "throwing" => result.status # "threw_callback")
  /\ (handlers = "throwing" /\ top = "full")
       ~> ( /\ top = "idle"
            /\ result.op = "full"
            /\ \/ result.status = "returned" /\ state.phase = "GameOver"
               \/ result.status = "threw_maxCycles" )

\* A full cycle of several iterations returned in GameOver after every
\* handler call threw.
C4_Witness ==
  /\ handlers = "throwing"
  /\ top = "idle"
  /\ result.op = "full"
  /\ result.status = "returned"
  /\ result.cycleCount > 1
  /\ state.phase = "GameOver"
  /\ call.kind = "throw"

\* C5 as stated: runFullCycle called once START_GAME has been applied is not
\* rejected as not started, it enters its loop.
C5_StartedGameRuns ==
  [][(last.type = "START_GAME" /\ uiRunFullCycle)
       => (top' = "full" /\ pc' = "f_cycle")]_vars

\* C6: runFullCycle called while the phase is RoleAssignment fails before any
\* dispatch and any handler call: the GameState is the same after it.
C6_RejectedCycleChangesNothing ==
  [][(state.phase = "RoleAssignment" /\ uiRunFullCycle)
       => /\ result'.status = "threw_notStarted"
          /\ state' = state
          /\ last' = last
          /\ call' = call
          /\ top' = "idle"]_vars

\* runFullCycle was rejected on a game dealt again after a sequence had run.
C6_Witness ==
  /\ result.op = "full"
  /\ result.status = "threw_notStarted"
  /\ state.phase = "RoleAssignment"
  /\ last.type = "START_GAME"
  /\ call.point # "none"
  /\ top = "idle"

\* ------------------------------------------- properties: votes and the hunter
\* The number of votes naming a target, and the targets no other target beats.
VotesFor(votes, target) ==
  Cardinality({i \in 1..Len(votes) : votes[i].targetId = target})

TopTargets(votes) ==
  LET named == {votes[i].targetId : i \in 1..Len(votes)} \ {Null}
  IN {t \in named : \A u \in named : VotesFor(votes, t) >= VotesFor(votes, u)}

\* The seats the last action took from alive to dead, and from dead to alive.
Killed ==
  {i \in 1..Len(prev.players) :
     prev.players[i].isAlive /\ ~state.players[i].isAlive}

Revived ==
  {i \in 1..Len(prev.players) :
     ~prev.players[i].isAlive /\ state.players[i].isAlive}

\* The lines the last action appended to the game log.
NewLines ==
  {state.gameLog[k] : k \in (Len(prev.gameLog) + 1)..Len(state.gameLog)}

\* C11: when RESOLVE_VOTING finds two or more targets sharing the highest vote
\* count, or no vote naming a target at all, no alive flag changes and a tie
\* line is appended to the log.
C11_TieEliminatesNobody ==
  (last.type = "RESOLVE_VOTING" /\ Cardinality(TopTargets(prev.votes)) # 1)
  => /\ Killed = {}
     /\ Revived = {}
     /\ \E line \in NewLines : line.tag = "tie"

\* Two alive targets tie at the top with one vote each.
C11_Witness ==
  /\ last.type = "RESOLVE_VOTING"
  /\ Cardinality(TopTargets(prev.votes)) = 2
  /\ \A t \in TopTargets(prev.votes) :
       \E i \in 1..Len(prev.players) :
         prev.players[i].id = t /\ prev.players[i].isAlive
  /\ state.players = prev.players

\* C12: when exactly one target has the strictly highest vote count,
\* RESOLVE_VOTING kills that target and nobody else if it is alive, with an
\* elimination line carrying its vote count, and kills nobody if it is dead or
\* no player has that id; RESOLVE_VOTING never kills more than one player.
C12_TopTargetEliminated ==
  last.type = "RESOLVE_VOTING" =>
    /\ Cardinality(Killed) <= 1
    /\ Revived = {}
    /\ \A t \in TopTargets(prev.votes) :
         Cardinality(TopTargets(prev.votes)) = 1 =>
           /\ Killed = {i \in 1..Len(prev.players) :
                          prev.players[i].id = t /\ prev.players[i].isAlive}
           /\ Killed # {} =>
                Msg("eliminated", 0, t, VotesFor(prev.votes, t), << >>)
                  \in NewLines

\* Two votes against one: the alive target with two votes is eliminated, the
\* one with a single vote stays.
C12_Witness ==
  /\ last.type = "RESOLVE_VOTING"
  /\ \E t \in TopTargets(prev.votes) :
       /\ VotesFor(prev.votes, t) = 2
       /\ Len(prev.votes) = 3
       /\ \E i \in Killed : prev.players[i].id = t

\* The ids of the Hunters the last action killed.
KilledHunters ==
  {prev.players[i].id : i \in {k \in Killed : prev.players[k].role = "Hunter"}}

C14_WinnerEndsGame ==
  ( /\ last.type \in {"RESOLVE_NIGHT", "RESOLVE_VOTING"}
    /\ checkWinCondition(state.players) # "none" )
  => /\ state.phase = "GameOver"
     /\ state.winner = checkWinCondition(state.players)
     /\ state.hunterPending = NoPending
     /\ last.type = "RESOLVE_VOTING" => state.votes = << >>

\* The vote that exiles the Hunter gives the werewolves parity: the game is
\* over and no shot is owed.
C14_Witness ==
  /\ last.type = "RESOLVE_VOTING"
  /\ KilledHunters # {}
  /\ prev.votes # << >>
  /\ state.phase = "GameOver"
  /\ state.winner = "Werewolves"
  /\ state.hunterPending = NoPending

\* C15: when RESOLVE_NIGHT in a game with day = d yields phase Day, the
\* resulting day is d + 1; the first night of a new game ends with day = 1.
C15_DawnAdvancesDay ==
  (last.type = "RESOLVE_NIGHT" /\ state.phase = "Day")
  => state.day = prev.day + 1

\* C16: RESOLVE_VOTING with day = d that leaves no winner yields day = d + 1
\* and no votes, with phase Night, or HunterAction when the Hunter was voted
\* out; when it leaves a winner the day counter is unchanged.
C16_VoteAdvancesDay ==
  last.type = "RESOLVE_VOTING" =>
    IF checkWinCondition(state.players) = "none"
      THEN /\ state.day = prev.day + 1
           /\ state.votes = << >>
           /\ state.phase \in {"Night", "HunterAction"}
           /\ KilledHunters # {} => state.phase = "HunterAction"
           /\ (KilledHunters = {} /\ prev.hunterPending = NoPending)
                => state.phase = "Night"
      ELSE state.day = prev.day

\* The first vote of a game exiles the Hunter: day 1, no votes, HunterAction.
C16_Witness ==
  /\ last.type = "RESOLVE_VOTING"
  /\ KilledHunters # {}
  /\ prev.votes # << >>
  /\ prev.day = 0
  /\ state.day = 1
  /\ state.votes = << >>
  /\ state.phase = "HunterAction"

\* C17: HUNTER_SHOOT applied to a state whose hunterPending is null returns
\* that state, whatever the target is.
C17_ShotWithoutPendingIsNoop ==
  (last.type = "HUNTER_SHOOT" /\ prev.hunterPending = NoPending)
  => state = prev

\* A shot at an alive player when no shot is owed.
C17_Witness ==
  /\ last.type = "HUNTER_SHOOT"
  /\ prev.hunterPending = NoPending
  /\ \E i \in 1..Len(prev.players) :
       prev.players[i].id = last.a /\ prev.players[i].isAlive
  /\ state = prev

\* C18: HUNTER_SHOOT(t) with a pending shot kills exactly the alive player
\* with id t, and nobody when t is null or the id of a dead or unknown
\* player; then the phase is GameOver with the winner checkWinCondition names,
\* or the pending nextPhase when it names none; hunterPending becomes null
\* and the day counter is unchanged.
C18_HunterShot ==
  (last.type = "HUNTER_SHOOT" /\ prev.hunterPending # NoPending)
  => /\ Killed = {i \in 1..Len(prev.players) :
                    prev.players[i].id = last.a /\ prev.players[i].isAlive}
     /\ Cardinality(Killed) <= 1
     /\ Revived = {}
     /\ IF checkWinCondition(state.players) # "none"
          THEN /\ state.phase = "GameOver"
               /\ state.winner = checkWinCondition(state.players)
          ELSE state.phase = prev.hunterPending.nextPhase
     /\ state.hunterPending = NoPending
     /\ state.day = prev.day

\* The exiled Hunter's shot kills a villager and gives the werewolves parity.
C18_Witness ==
  /\ last.type = "HUNTER_SHOOT"
  /\ prev.hunterPending.context = "day"
  /\ Cardinality(Killed) = 1
  /\ prev.winner = "none"
  /\ state.phase = "GameOver"
  /\ state.winner = "Werewolves"

\* C19: once the phase is GameOver, no action other than START_GAME yields a
\* state whose phase is not GameOver or whose winner differs.
C19_GameOverAbsorbing ==
  (prev.phase = "GameOver" /\ last.type \notin {"init", "START_GAME"})
  => /\ state.phase = "GameOver"
     /\ state.winner = prev.winner

\* C20: no action other than START_GAME turns a dead player alive.
C20_DeathIsPermanent ==
  last.type \notin {"init", "START_GAME"} => Revived = {}

\* The werewolves choose a player who died in an earlier night: the night is
\* resolved and the player stays dead.
C20_Witness ==
  /\ last.type = "RESOLVE_NIGHT"
  /\ \E i \in 1..Len(prev.players) :
       /\ prev.players[i].id = prev.werewolfChoice
       /\ ~prev.players[i].isAlive
       /\ ~state.players[i].isAlive


\* ---------------------------------------------------------------------------
\* properties: the roster, the reset and the orchestrator's sequences
\* ---------------------------------------------------------------------------

\* The seats that hold a Werewolf.
WerewolfSeats(players) ==
  {i \in 1..Len(players) : players[i].role = "Werewolf"}

\* C21: in every state the engine reaches there are 10 players of whom exactly
\* 3 are Werewolves, and no action other than START_GAME changes the id or the
\* role of any player.
C21_RosterFixed ==
  /\ Len(state.players) = 10
  /\ Cardinality(WerewolfSeats(state.players)) = 3
  /\ last.type \notin {"init", "START_GAME"} =>
       /\ Len(prev.players) = Len(state.players)
       /\ \A i \in 1..Len(state.players) :
            /\ state.players[i].id = prev.players[i].id
            /\ state.players[i].role = prev.players[i].role

\* After a START_GAME that dealt the roles anew a night is resolved in which a
\* player dies: the alive flag changes, the roster does not.
C21_Witness ==
  /\ last.type = "RESOLVE_NIGHT"
  /\ Killed # {}
  /\ \E i \in 1..Len(state.players) : state.players[i].role # ROLE_PRESET[i]

\* C22: when a runFullCycle that entered its loop has ended below the ceiling of
\* iterations and the game is over, it returned normally and the last handler
\* it called is onGameOver, whichever step ended the game.
C22_GameOverIsReported ==
  ( /\ top = "idle"
    /\ result.op = "full"
    /\ result.status # "threw_notStarted"
    /\ result.cycleCount < MAX_CYCLES
    /\ state.phase = "GameOver" )
  => (result.status = "returned" /\ call.point = "onGameOver")

\* C23: runFullCycle runs at most MAX_CYCLES iterations, and when it has ended
\* with the error of the exceeded ceiling the game is not over: a loop left
\* because the game is over, in whichever iteration, does not end in that error.
C23_CeilingOnlyWhenNotOver ==
  (top = "idle" /\ result.op = "full") =>
    /\ result.cycleCount <= MAX_CYCLES
    /\ result.status = "threw_maxCycles" => ~isGameOver(state)

\* The rounds of the post-vote discussion so far: at most MAX_ROUNDS handler
\* calls, the i-th for round i, onPostVoteDiscussion first and
\* onPostVoteFollowUp after it, each round but the last with two takers or more.
PostVoteRoundsInOrder ==
  /\ Len(postVote.calls) <= MAX_ROUNDS
  /\ \A i \in 1..Len(postVote.calls) :
       /\ postVote.calls[i].round = i
       /\ postVote.calls[i].point =
            IF i = 1 THEN "onPostVoteDiscussion" ELSE "onPostVoteFollowUp"
       /\ i < Len(postVote.calls) => postVote.calls[i].count >= 2
  /\ postVote.pc = "round" =>
       /\ postVote.round = Len(postVote.calls) + 1
       /\ postVote.round <= MAX_ROUNDS
       /\ postVote.calls # << >> =>
            postVote.calls[Len(postVote.calls)].count >= 2
  /\ postVote.pc = "done" =>
       /\ postVote.calls # << >>
       /\ \/ postVote.calls[Len(postVote.calls)].count < 2
          \/ Len(postVote.calls) = MAX_ROUNDS

\* C24: the post-vote discussion calls onPostVoteDiscussion once for round 1
\* and onPostVoteFollowUp once for each later round, stops after a round with
\* fewer than two takers, never calls a handler for a round beyond MAX_ROUNDS,
\* and every round that has begun leads to the end of the sub-sequence,
\* whatever the handlers return.
C24_PostVoteTerminates ==
  /\ []PostVoteRoundsInOrder
  /\ (postVote.pc = "round") ~> (postVote.pc = "done")

\* The third round ends with two follow-ups or more: the discussion stops at
\* the ceiling although its speakers would go on.
C24_Witness ==
  /\ postVote.pc = "done"
  /\ Len(postVote.calls) = MAX_ROUNDS
  /\ postVote.calls[MAX_ROUNDS].count >= 2

\* What the pause machinery has established: a blocked wait has its resolver
\* queued and its timer armed and does not last beyond the timeout, a timeout
\* leaves the flag false and its waiter running, a resume leaves no waiter
\* queued or blocked.
PauseBounded ==
  /\ \A w \in Waiters :
       /\ tempo.waits[w].waited <= PAUSE_TIMEOUT
       /\ tempo.waits[w].pc = "blocked" =>
            (w \in tempo.pauseResolvers /\ ENABLED timerOf(w))
  /\ tempo.event.type = "timeout" =>
       /\ ~tempo.paused
       /\ tempo.waits[tempo.event.waiter].pc = "out"
  /\ tempo.event.type = "resume" =>
       /\ ~tempo.paused
       /\ tempo.pauseResolvers = {}
       /\ \A w \in Waiters : tempo.waits[w].pc = "out"

\* A blocked waiter that tests the loop again and stays blocked has waited
\* longer than before.
PauseProgress ==
  \A w \in Waiters :
    ( /\ tempo.waits[w].pc = "blocked"
      /\ tempo'.waits[w].pc = "blocked"
      /\ tempo'.waits[w] # tempo.waits[w] )
    => tempo'.waits[w].waited > tempo.waits[w].waited

\* C25: every wait blocked on the pause returns, resume or no resume: while it
\* is blocked its timer is armed, each firing lets it test the loop with more
\* time waited, past the timeout it forces the paused flag to false and
\* returns; a resume releases every queued waiter.
C25_PausedWaitsReturn ==
  /\ []PauseBounded
  /\ [][PauseProgress]_vars

\* A waiter has given up after the timeout while the other one is still
\* blocked: the flag is false, the other waiter goes on at its next timer.
C25_Witness ==
  /\ tempo.event.type = "timeout"
  /\ \E w \in Waiters : tempo.waits[w].pc = "blocked"

\* The awaits of a sequence on the decision of a handler.
DecisionPoints == {"n_wolf", "n_seer", "n_witch", "d_discussion", "d_vote", "h_decide"}

\* C26: a sequence that awaits the decision of a handler can always go on,
\* with the handler's decision or with the fallback: no decision callback
\* stalls the game, not even one that never completes.
C26_CallbackCannotStall ==
  pc \in DecisionPoints => ENABLED Continue

\* C27: START_GAME on any state yields day 0, phase RoleAssignment, no winner,
\* no werewolf or seer choice, a fresh witch state, no votes, no pending shot,
\* ten alive players, a game log of one line, a replay of one entry and no
\* highlights.
C27_StartGameResets ==
  last.type = "START_GAME" =>
    /\ state.day = 0
    /\ state.phase = "RoleAssignment"
    /\ state.winner = "none"
    /\ state.werewolfChoice = Null
    /\ state.seerChoice = Null
    /\ state.witchState = [saveUsed |-> FALSE, poisonUsed |-> FALSE,
                            poisonChoice |-> Null, savedTargetId |-> Null]
    /\ state.votes = << >>
    /\ state.hunterPending = NoPending
    /\ Len(state.players) = 10
    /\ \A i \in 1..Len(state.players) : state.players[i].isAlive
    /\ Len(state.gameLog) = 1
    /\ Len(state.replay) = 1
    /\ state.highlights = << >>

\* A game in progress is started anew: a player was dead, a potion was used,
\* a vote was cast and the log had grown.
C27_Witness ==
  /\ last.type = "START_GAME"
  /\ \E i \in 1..Len(prev.players) : ~prev.players[i].isAlive
  /\ prev.witchState.poisonUsed
  /\ prev.votes # << >>
  /\ prev.day > 0
  /\ Len(prev.gameLog) > 1

\* The phases a resolution or a shot may lead to.
AfterNight == {"Day", "HunterAction", "GameOver"}
AfterVote == {"Night", "HunterAction", "GameOver"}

\* Whether the step of a sequence that changes the phase from `from` to `to`
\* by the action `type` is in the order of a cycle; `inNight` says which
\* sequence is running.
InCycleOrder(from, to, type, inNight) ==
  CASE from = "Night" -> to = "WerewolfAction"
    [] from = "WerewolfAction" ->
         \/ to \in {"SeerAction", "WitchAction"}
         \/ to \in AfterNight /\ type = "RESOLVE_NIGHT"
    [] from = "SeerAction" ->
         \/ to = "WitchAction"
         \/ to \in AfterNight /\ type = "RESOLVE_NIGHT"
    [] from = "WitchAction" -> to \in AfterNight /\ type = "RESOLVE_NIGHT"
    [] from = "HunterAction" ->
         /\ type = "HUNTER_SHOOT"
         /\ to \in {IF inNight THEN "Day" ELSE "Night", "GameOver"}
    [] from = "Day" -> to = "Discussion"
    [] from = "Discussion" -> to = "Voting"
    [] from = "Voting" -> to \in AfterVote /\ type = "RESOLVE_VOTING"
    [] OTHER -> FALSE

DispatchRank(type) ==
  CASE type = "WEREWOLF_ACTION" -> 1
    [] type = "SEER_ACTION" -> 2
    [] type \in {"WITCH_SAVE", "WITCH_POISON"} -> 3
    [] type = "PLAYER_VOTE" -> 3
    [] type \in {"RESOLVE_NIGHT", "RESOLVE_VOTING"} -> 4
    [] type = "HUNTER_SHOOT" -> 5
    [] OTHER -> 0

\* Whether the running sequence has dispatched an action of this type, or a
\* setPhase to this phase.
HasDispatched(type) ==
  \E i \in 1..Len(dispatched) : dispatched[i].type = type

HasSetPhase(phase) ==
  \E i \in 1..Len(dispatched) :
    dispatched[i].type = "SET_PHASE" /\ dispatched[i].a = phase

\* C29: in a night the werewolves' target is dispatched before the seer's,
\* the seer's before any witch action, and all of them before RESOLVE_NIGHT;
\* the SeerAction (WitchAction) stage is run if and only if a Seer (Witch) was
\* alive at the start of the night; in a day exactly the votes with a target
\* are dispatched as PLAYER_VOTE, in their order, before RESOLVE_VOTING.
C29_DispatchOrder ==
  /\ \A i, j \in 1..Len(dispatched) :
       (i < j /\ DispatchRank(dispatched[i].type) > 0
              /\ DispatchRank(dispatched[j].type) > 0)
       => /\ DispatchRank(dispatched[i].type) <= DispatchRank(dispatched[j].type)
          /\ dispatched[i].type = dispatched[j].type =>
               dispatched[i].type = "PLAYER_VOTE"
  /\ HasSetPhase("SeerAction") => isRoleAlive(alivePlayersOf(ctx), "Seer")
  /\ HasSetPhase("WitchAction") => isRoleAlive(alivePlayersOf(ctx), "Witch")
  /\ HasDispatched("SEER_ACTION") => HasSetPhase("SeerAction")
  /\ (HasDispatched("WITCH_SAVE") \/ HasDispatched("WITCH_POISON")) =>
       HasSetPhase("WitchAction")
  /\ HasDispatched("RESOLVE_NIGHT") =>
       /\ HasDispatched("WEREWOLF_ACTION")
       /\ isRoleAlive(alivePlayersOf(ctx), "Seer") =>
            (HasSetPhase("SeerAction") /\ HasDispatched("SEER_ACTION"))
       /\ isRoleAlive(alivePlayersOf(ctx), "Witch") => HasSetPhase("WitchAction")
  /\ \A i \in 1..Len(dispatched) :
       dispatched[i].type = "PLAYER_VOTE" => dispatched[i].b # Null
  /\ pc = "d_settled" =>
       SelectSeq(dispatched, LAMBDA d : d.type = "PLAYER_VOTE")
         = castActions(SelectSeq(call.decision.votes,
                                 LAMBDA vote : vote.targetId # Null))

\* A vote is resolved after onVoting had returned a vote without a target
\* among votes with one.
C29_Witness ==
  /\ pc = "d_settled"
  /\ HasDispatched("PLAYER_VOTE")
  /\ \E i \in 1..Len(call.decision.votes) :
       call.decision.votes[i].targetId = Null

\* C30: in every state the orchestrator's sequences reach a shot is pending
\* if and only if the phase is HunterAction; it has become pending in the
\* RESOLVE_NIGHT or RESOLVE_VOTING just dispatched, which killed a Hunter and
\* left no winner; HUNTER_SHOOT leaves none pending, and no resolution starts
\* from a state with a pending shot.
C30_PendingIffHunterAction ==
  /\ (state.hunterPending # NoPending) <=> (state.phase = "HunterAction")
  /\ state.hunterPending # NoPending =>
       /\ last.type \in {"RESOLVE_NIGHT", "RESOLVE_VOTING"}
       /\ prev.hunterPending = NoPending
       /\ state.hunterPending.playerId \in KilledHunters
       /\ state.winner = "none"
       /\ state.phase # "GameOver"
  /\ last.type = "HUNTER_SHOOT" => state.hunterPending = NoPending
  /\ last.type \in {"RESOLVE_NIGHT", "RESOLVE_VOTING"} =>
       prev.hunterPending = NoPending

\* The shot of a Hunter has been resolved and the game goes on with the phase
\* that was put off.
C30_Witness ==
  /\ last.type = "HUNTER_SHOOT"
  /\ prev.hunterPending # NoPending
  /\ prev.phase = "HunterAction"
  /\ state.phase = prev.hunterPending.nextPhase


\* ---------------------------------------------------------------------------
\* properties: the win condition, the night's frame, the logs and the pause
\* ---------------------------------------------------------------------------

\* START_GAME has been dispatched: the game log starts with the line of the
\* deal, and no later action removes a line.
GameStarted ==
  /\ state.gameLog # << >>
  /\ state.gameLog[1].tag = "start"

\* C31: in every state reached after START_GAME the winner field equals
\* checkWinCondition(players), and the winner is not 'none' if and only if the
\* phase is GameOver.
C31_WinnerNeverStale ==
  GameStarted =>
    /\ state.winner = checkWinCondition(state.players)
    /\ (state.winner # "none") <=> (state.phase = "GameOver")

\* The half of C31 that the reducer keeps: the winner field is never stale.
WinnerIsCurrent ==
  state.winner = checkWinCondition(state.players)

\* C32: when runNightSequence returns normally the phase is Day or GameOver,
\* when runDaySequence returns normally the phase is Night or GameOver, and in
\* both cases hunterPending is null: a HunterAction phase that the resolution
\* produced has been resolved by the hunter stage of the same sequence.
C32_SequencesEndSettled ==
  /\ pc = "n_done" =>
       /\ state.phase \in {"Day", "GameOver"}
       /\ state.hunterPending = NoPending
  /\ pc = "d_done" =>
       /\ state.phase \in {"Night", "GameOver"}
       /\ state.hunterPending = NoPending

\* The night killed the Hunter, the hunter stage dispatched the shot and the
\* night sequence is about to return with the phase the resolution announced.
C32_Witness ==
  /\ pc = "n_done"
  /\ last.type = "HUNTER_SHOOT"
  /\ pending.context = "night"
  /\ state.phase = "Day"

\* C33: whichever outcome RESOLVE_NIGHT has (GameOver, HunterAction, Day), the
\* state it yields has poisonChoice, savedTargetId, werewolfChoice and
\* seerChoice null and the saveUsed and poisonUsed it found; a night resolved
\* right afterwards, with no new choice recorded, kills nobody.
C33_NightChoicesCleared ==
  last.type = "RESOLVE_NIGHT" =>
    /\ state.phase \in {"GameOver", "HunterAction", "Day"}
    /\ state.witchState.poisonChoice = Null
    /\ state.witchState.savedTargetId = Null
    /\ state.werewolfChoice = Null
    /\ state.seerChoice = Null
    /\ state.witchState.saveUsed = prev.witchState.saveUsed
    /\ state.witchState.poisonUsed = prev.witchState.poisonUsed
    /\ \A i \in 1..Len(state.players) :
         RESOLVE_NIGHT(state).players[i].isAlive = state.players[i].isAlive

\* A night with a werewolf target, a save and a poison recorded is resolved.
C33_Witness ==
  /\ last.type = "RESOLVE_NIGHT"
  /\ prev.werewolfChoice # Null
  /\ prev.witchState.savedTargetId # Null
  /\ prev.witchState.poisonChoice # Null
  /\ prev.witchState.saveUsed
  /\ prev.witchState.poisonUsed

\* The seats of the alive players that carry the given id.
AliveWith(players, id) ==
  {i \in 1..Len(players) : players[i].id = id /\ players[i].isAlive}

\* The causes the night's summary line records for the given id: one entry per
\* record of that id in a line of deaths the last action appended.
RecordedCauses(id) ==
  UNION {{line.deaths[k].causes :
            k \in {j \in 1..Len(line.deaths) : line.deaths[j].id = id}} :
         line \in {l \in NewLines : l.tag = "nightDeaths"}}

\* What RESOLVE_NIGHT does whatever the save: an alive poison target dies, a
\* dead or unknown target produces no death, at most two players die, and a
\* victim has one record of causes.
PoisonIsIndependent ==
  /\ AliveWith(prev.players, prev.witchState.poisonChoice) \subseteq Killed
  /\ Killed \subseteq AliveWith(prev.players, prev.werewolfChoice)
                        \cup AliveWith(prev.players, prev.witchState.poisonChoice)
  /\ Cardinality(Killed) <= 2
  /\ Revived = {}
  /\ \A i \in 1..Len(prev.players) :
       /\ i \in Killed => Cardinality(RecordedCauses(prev.players[i].id)) = 1
       /\ i \notin Killed => RecordedCauses(prev.players[i].id) = {}
  /\ RecordedCauses(UnknownId) = {}

\* The werewolves and the witch's poison chose the same alive player.
BothChose(i) ==
  /\ prev.players[i].isAlive
  /\ prev.werewolfChoice = prev.players[i].id
  /\ prev.witchState.poisonChoice = prev.players[i].id

IsPrefix(before, after) ==
  /\ Len(before) <= Len(after)
  /\ \A k \in 1..Len(before) : after[k] = before[k]

\* C35 as stated: for every engine action other than START_GAME the game log,
\* the replay log and the highlights list before the action are prefixes of
\* the same lists after the action.
C35_LogsAppendOnly ==
  last.type \notin {"init", "START_GAME"} =>
    /\ IsPrefix(prev.gameLog, state.gameLog)
    /\ IsPrefix(prev.replay, state.replay)
    /\ IsPrefix(prev.highlights, state.highlights)

\* C35, amended: the game log and the replay log are append-only for every
\* engine action other than START_GAME, and the highlights list is append-only
\* for every engine action other than START_GAME and SET_HIGHLIGHTS, which
\* replaces the list with the one it is given.
C35_LogsAppendOnlyButSetHighlights ==
  last.type \notin {"init", "START_GAME"} =>
    /\ IsPrefix(prev.gameLog, state.gameLog)
    /\ IsPrefix(prev.replay, state.replay)
    /\ IF last.type = "SET_HIGHLIGHTS"
         THEN state.highlights \in HighlightLists
         ELSE IsPrefix(prev.highlights, state.highlights)

\* SET_HIGHLIGHTS with the empty list on a state that has highlights: the list
\* is replaced, the two logs are as they were.
C35_Witness ==
  /\ last.type = "SET_HIGHLIGHTS"
  /\ prev.highlights # << >>
  /\ state.highlights = << >>
  /\ state.gameLog = prev.gameLog
  /\ state.gameLog # << >>

\* An AI handler is blocked in its waitIfPaused while the orchestrator awaits
\* the handler and the pause flag is set.
PausedInHandler ==
  /\ pc = "r_invoke"
  /\ ai.pc = "poll"
  /\ ai.pausedRef
  /\ tempo.paused

NoticesInLog ==
  Cardinality({k \in 1..Len(state.gameLog) : state.gameLog[k] = OfflineNotice})

\* Since a request failed and until resetAllAgents: the engine is disabled, no
\* handler is in its loop over the agents, no request has gone to the
\* provider, every handler has returned its offline decision, and the notice
\* has been appended exactly once.
OfflineLatched ==
  run.failed =>
    /\ ~ai.enabled
    /\ ai.pc = "idle"
    /\ run.lateCalls = 0
    /\ run.decided \in {"offline", "latched"}
    /\ state.werewolfChoice \in {Null, fallbackWerewolf(ctx).targetId}
    /\ run.notices = 1
    /\ NoticesInLog = 1

livingVotes(s) ==
  SelectSeq(s.votes, LAMBDA vote : AliveWith(s.players, vote.voterId) # {})

\* The seats RESOLVE_VOTING would turn from alive to dead.
Eliminates(s) ==
  {i \in 1..Len(s.players) :
     s.players[i].isAlive /\ ~RESOLVE_VOTING(s).players[i].isAlive}

\* C38: only the votes of living voters decide an elimination: RESOLVE_VOTING
\* eliminates the player it would eliminate if the votes of dead voters and of
\* voters who are no player had not been cast.
C38_OnlyLivingVotersCount ==
  last.type = "RESOLVE_VOTING" =>
    Killed = Eliminates([prev EXCEPT !.votes = livingVotes(prev)])

====
